---- MODULE Spec2Model ----
(***************************************************************************)
(* A model of the patient-timeline pipeline of cehr-bert:                  *)
(*   - MedToCehrBertDatasetMapping.transform  (hf_dataset_mapping.py)      *)
(*   - SortPatientSequenceMapping.transform   (hf_dataset_mapping.py)      *)
(*   - convert_one_patient                    (meds_utils.py)              *)
(*   - transformer_hierarchical_bert_model    (hierachical_bert_model_v2)  *)
(*   - ExcludingOutlierOnlineStatistics       (stat_utils, by its test)    *)
(*   - HFTokenizationMapping.transform        (hf_dataset_mapping.py)      *)
(*   - PatientBlock._convert_event            (meds_utils.py)              *)
(*   - build_ancestry_table_for               (spark_utils.py)             *)
(* Each program has its own specification over the shared variables:       *)
(* Spec (flattening), SortSpec (sequence ordering), ConvertSpec (MEDS      *)
(* block reconstruction), MergeSpec, StatsSpec, TokenizeSpec, EventSpec    *)
(* and AncestrySpec.                                                       *)
(*                                                                         *)
(* Conventions.  A datetime is a record [y, m, d, s] (s = second of the    *)
(* day); Python's None for a datetime is NoTime.  Numeric measurement      *)
(* values are fixed-point tenths (0.5 is 5, the -1 sentinel is -10).       *)
(* Block indexes are 1-based (the code's index plus one) and 0 is None.    *)
(***************************************************************************)
EXTENDS Integers, Sequences, FiniteSets, TLC

VARIABLES
    pc,                      \* which program runs and where it is
    record,                  \* transform: the input patient record
    config,                  \* transform: the mapping's constructor arguments
    cehrbert_record,         \* transform: the output record under construction
    i,                       \* transform: enumerate() index of the visit loop
    visit_segment_indicator, \* transform: the 1/2 toggle
    date_cursor,             \* transform: the date cursor
    sort_record,             \* sort: the input record
    sort_once,               \* sort: transform(record)
    sort_twice,              \* sort: transform(transform(record))
    prediction_time,         \* convert: the prediction_time argument
    visit_id,                \* convert: the provisional visit id counter
    current_date,            \* convert: current_date of the partition loop
    events_for_current_date, \* convert: events of the block being built
    patient_blocks,          \* convert: the list of PatientBlocks
    n_read,                  \* convert: number of events read from the stream
    patient_events,          \* convert: the events of patient.events read so far
    admit_discharge_pairs,   \* convert: recorded (admit, discharge) pairs
    active_ed_index,         \* convert: ED cursor of the block scan
    active_admission_index,  \* convert: admission cursor of the block scan
    block_index,             \* convert: enumerate() index of the block scan
    visits,                  \* convert: the returned visits
    concept_embeddings,      \* merge: embedding of every (visit, concept) slot
    visit_embeddings,        \* merge: embedding of every visit
    layer,                   \* merge: index i of the exchange round
    raw_data,                \* statistics: the buffer of raw observations
    add_error,               \* statistics: the error raised by the last call
    mapping,                 \* tokenization: the mapping's constructor arguments
    token_record,            \* tokenization: the input record
    token_output,            \* tokenization: the returned record
    event,                   \* event conversion: the input event
    converted_events,        \* event conversion: the returned events
    concept_relationship,    \* ancestry: rows of the concept_relationship table
    concept_ids,             \* ancestry: the seed concepts
    ancestry_table,          \* ancestry: rows (ancestor, descendant, distance)
    candidate_set,           \* ancestry: rows found by the last query
    decorators,              \* decorators: the constructor arguments
    raw_patient_event,       \* decorators: the input rows of one person
    patient_event,           \* decorators: the rows after the last decorator
    grid_search_file,        \* grid search: the sections of the config file
    grid_search_config       \* grid search: the returned GridSearchConfig

vars == <<pc, record, config, cehrbert_record, i, visit_segment_indicator,
          date_cursor, sort_record, sort_once, sort_twice, prediction_time,
          visit_id, current_date, events_for_current_date, patient_blocks,
          n_read, patient_events, admit_discharge_pairs, active_ed_index,
          active_admission_index, block_index, visits, concept_embeddings,
          visit_embeddings, layer, raw_data, add_error, mapping, token_record,
          token_output, event, converted_events, concept_relationship,
          concept_ids, ancestry_table, candidate_set, decorators,
          raw_patient_event, patient_event, grid_search_file,
          grid_search_config>>

transform_vars == <<record, config, cehrbert_record, i,
                    visit_segment_indicator, date_cursor>>

sort_vars == <<sort_record, sort_once, sort_twice>>

convert_vars == <<prediction_time, visit_id, current_date,
                  events_for_current_date, patient_blocks, n_read,
                  patient_events, admit_discharge_pairs, active_ed_index,
                  active_admission_index, block_index, visits>>

merge_vars == <<concept_embeddings, visit_embeddings, layer>>

stats_vars == <<raw_data, add_error>>

tokenize_vars == <<mapping, token_record, token_output>>

event_vars == <<event, converted_events>>

ancestry_vars == <<concept_relationship, concept_ids, ancestry_table,
                   candidate_set>>

decorate_vars == <<decorators, raw_patient_event, patient_event>>

grid_vars == <<grid_search_file, grid_search_config>>

more_vars == <<decorate_vars, grid_vars>>

\* The variables of the programs that follow the timeline pipeline.
later_vars == <<merge_vars, stats_vars, tokenize_vars, event_vars,
                ancestry_vars, more_vars>>

(***************************************************************************)
(* Bounds of the model.                                                    *)
(***************************************************************************)
MaxVisits == 2      \* visits per input patient record (transform)
MaxSeqLen == 3      \* tokens per input record (sort)
MaxEvents == 4      \* raw events per patient stream (convert)
MaxDays == 3        \* calendar days spanned by a patient stream (convert)

(***************************************************************************)
(* Calendar arithmetic: datetime, timedelta and dateutil's relativedelta.  *)
(***************************************************************************)
SecondsPerDay == 86400

NoTime == [y |-> 0, m |-> 0, d |-> 0, s |-> 0]

DT(y, m, d) == [y |-> y, m |-> m, d |-> d, s |-> 0]

IsLeap(y) == (y % 4 = 0) /\ ((y % 100 # 0) \/ (y % 400 = 0))

DaysInMonth(y, m) ==
    IF m = 2 THEN (IF IsLeap(y) THEN 29 ELSE 28)
    ELSE IF m \in {4, 6, 9, 11} THEN 30 ELSE 31

\* Days from 1970-01-01 to the date of dt (proleptic Gregorian calendar);
\* the year of the computation starts in March.
DayOfEra(yoe, doy) == yoe * 365 + yoe \div 4 - yoe \div 100 + doy

OrdinalFrom(yy, mp, d) ==
    (yy \div 400) * 146097 + DayOfEra(yy % 400, (153 * mp + 2) \div 5 + d - 1)
        - 719468

Ordinal(dt) ==
    OrdinalFrom(IF dt.m <= 2 THEN dt.y - 1 ELSE dt.y,
                IF dt.m > 2 THEN dt.m - 3 ELSE dt.m + 9,
                dt.d)

TotalSeconds(dt) == Ordinal(dt) * SecondsPerDay + dt.s

\* (a - b).days of a datetime.timedelta: floor of the difference in days.
TimedeltaDays(a, b) == (TotalSeconds(a) - TotalSeconds(b)) \div SecondsPerDay

\* Division truncating toward zero, as dateutil normalises signed fields.
TruncDiv(a, b) == IF a >= 0 THEN a \div b ELSE -((-a) \div b)

\* dt + relativedelta(months=n): the day is clipped to the month's length.
ClipDay(yy, mm, dt) ==
    [y |-> yy, m |-> mm, s |-> dt.s,
     d |-> IF dt.d > DaysInMonth(yy, mm) THEN DaysInMonth(yy, mm) ELSE dt.d]

MonthIndex(dt, n) == dt.y * 12 + (dt.m - 1) + n

AddMonths(dt, n) ==
    ClipDay(MonthIndex(dt, n) \div 12, (MonthIndex(dt, n) % 12) + 1, dt)

\* relativedelta(dt1, dt2): the month delta is moved by one month toward
\* zero while dt2 + months overshoots dt1 (t1, t2, tm: the seconds of dt1,
\* dt2 and dt2 + months).
RECURSIVE AdjustMonths(_, _, _)
AdjustStep(dt1, dt2, months, t1, t2, tm) ==
    IF t1 < t2
    THEN (IF t1 > tm THEN AdjustMonths(dt1, dt2, months + 1) ELSE months)
    ELSE (IF t1 < tm THEN AdjustMonths(dt1, dt2, months - 1) ELSE months)

AdjustMonths(dt1, dt2, months) ==
    AdjustStep(dt1, dt2, months, TotalSeconds(dt1), TotalSeconds(dt2),
               TotalSeconds(AddMonths(dt2, months)))

RelMonths(dt1, dt2) ==
    AdjustMonths(dt1, dt2, (dt1.y - dt2.y) * 12 + (dt1.m - dt2.m))

\* relativedelta(dt1, dt2).years
RelativedeltaYears(dt1, dt2) == TruncDiv(RelMonths(dt1, dt2), 12)

\* relativedelta(dt1, dt2).days: the days left over after whole months.
RelativedeltaDays(dt1, dt2) ==
    TruncDiv(TotalSeconds(dt1)
                - TotalSeconds(AddMonths(dt2, RelMonths(dt1, dt2))),
             SecondsPerDay)

NextDay(dt) ==
    IF dt.d < DaysInMonth(dt.y, dt.m) THEN [dt EXCEPT !.d = dt.d + 1]
    ELSE IF dt.m < 12 THEN [dt EXCEPT !.m = dt.m + 1, !.d = 1]
    ELSE [dt EXCEPT !.y = dt.y + 1, !.m = 1, !.d = 1]

(***************************************************************************)
(* str() of an integer and the artificial-time-token functions.            *)
(***************************************************************************)
Digits == <<"0", "1", "2", "3", "4", "5", "6", "7", "8", "9">>

RECURSIVE StrNat(_)
StrNat(n) ==
    IF n < 10 THEN Digits[n + 1]
    ELSE StrNat(n \div 10) \o Digits[(n % 10) + 1]

Str(n) == IF n < 0 THEN "-" \o StrNat(-n) ELSE StrNat(n)

time_token_func(time_delta) ==
    IF time_delta < 0 THEN "W-1"
    ELSE IF time_delta < 28 THEN "W" \o Str(time_delta \div 7)
    ELSE IF time_delta < 360 THEN "M" \o Str(time_delta \div 30)
    ELSE "LT"

time_day_token(time_delta) ==
    IF time_delta < 1080 THEN "D" \o Str(time_delta) ELSE "LT"

\* get_att_function: the function selected by its configured name.
ApplyAtt(fn, time_delta) ==
    IF fn = "day" THEN time_day_token(time_delta)
    ELSE time_token_func(time_delta)

(***************************************************************************)
(* MedToCehrBertDatasetMapping: constants and the input domain.            *)
(***************************************************************************)
INPATIENT_VISIT_TYPES == {"9201", "262", "8971", "8920", "38004311"}

INPATIENT_VISIT_TYPE_CODES ==
    {"Visit/IP", "Visit/ERIP", "Visit/51", "Visit/61", "NUCC/315D00000X"}

Epoch == DT(1970, 1, 1)

\* Python's None for a numeric value is the empty sequence, a value v is <<v>>.
NoValue == <<>>

Event(time, code, numeric_value) ==
    [time |-> time, code |-> code, numeric_value |-> numeric_value]

BirthDatetime == DT(1980, 4, 14)

VisitStarts ==
    {DT(2023, 12, 30), DT(2024, 4, 14), DT(2024, 4, 21), DT(2024, 5, 23)}

VisitTypes == {"9202", "9201"}

\* The event lists of a visit that starts at start: no event, one event at
\* the start, that event followed by a numeric event on the next day, the
\* same two events listed latest first, and the event at the start followed
\* by a numeric event one month and one day later.
EventLists(start) ==
    { <<>>,
      <<Event(start, "320128", NoValue)>>,
      <<Event(start, "320128", NoValue),
        Event(NextDay(start), "4134120", <<5>>)>>,
      <<Event(NextDay(start), "4134120", <<5>>),
        Event(start, "320128", NoValue)>>,
      <<Event(start, "320128", NoValue),
        Event(AddMonths(NextDay(start), 1), "4134120", <<5>>)>> }

LastTime(events, start) ==
    IF events = <<>> THEN start ELSE events[Len(events)].time

Visit(visit_type, start, events) ==
    [visit_type |-> visit_type,
     visit_start_datetime |-> start,
     visit_end_datetime |->
        IF visit_type \in INPATIENT_VISIT_TYPES
        THEN LastTime(events, start) ELSE NoTime,
     discharge_facility |->
        IF visit_type \in INPATIENT_VISIT_TYPES THEN "8536" ELSE "",
     events |-> events]

VisitPool ==
    { Visit(t, s, evs) : <<t, s, evs>> \in
        { <<t, s, evs>> \in VisitTypes \X VisitStarts \X
              UNION { EventLists(s0) : s0 \in VisitStarts } :
            evs \in EventLists(s) } }

\* Non-empty visit lists in any order (a Patient has at least one Visit).
VisitLists == UNION { [1..n -> VisitPool] : n \in 1..MaxVisits }

PatientRecord(vs) ==
    [patient_id |-> 0,
     birth_datetime |-> BirthDatetime,
     gender |-> "8507",
     race |-> "0",
     visits |-> vs]

Configs ==
    [include_demographic_prompt : BOOLEAN,
     include_auxiliary_token : BOOLEAN,
     att_function_type : {"cehr_bert", "day"},
     inpatient_att_function_type : {"none", "day"}]

(***************************************************************************)
(* MedToCehrBertDatasetMapping._update_cehrbert_record and its defaults.   *)
(***************************************************************************)
\* Variant: the default age of a token is 0 instead of -1.
DefaultArgsAgeZero(code) ==
    [code |-> code, visit_segment |-> 0, date |-> 0, age |-> 0,
     visit_concept_order |-> 0, visit_concept_id |-> "0",
     concept_value_mask |-> 0, concept_value |-> -10, mlm_skip_value |-> 0]

DefaultArgs(code) ==
    [code |-> code, visit_segment |-> 0, date |-> 0, age |-> -1,
     visit_concept_order |-> 0, visit_concept_id |-> "0",
     concept_value_mask |-> 0, concept_value |-> -10, mlm_skip_value |-> 0]

\* Variant: mlm_skip_values is appended only for tokens that carry a value.
update_cehrbert_record_sparse_skip(rec, a) ==
    [rec EXCEPT
        !.concept_ids = Append(@, a.code),
        !.visit_concept_orders = Append(@, a.visit_concept_order),
        !.ages = Append(@, a.age),
        !.dates = Append(@, a.date),
        !.visit_segments = Append(@, a.visit_segment),
        !.visit_concept_ids = Append(@, a.visit_concept_id),
        !.concept_value_masks = Append(@, a.concept_value_mask),
        !.concept_values = Append(@, a.concept_value),
        !.mlm_skip_values = IF a.mlm_skip_value = 1
                            THEN Append(@, a.mlm_skip_value) ELSE @]

update_cehrbert_record(rec, a) ==
    [rec EXCEPT
        !.concept_ids = Append(@, a.code),
        !.visit_concept_orders = Append(@, a.visit_concept_order),
        !.ages = Append(@, a.age),
        !.dates = Append(@, a.date),
        !.visit_segments = Append(@, a.visit_segment),
        !.visit_concept_ids = Append(@, a.visit_concept_id),
        !.concept_value_masks = Append(@, a.concept_value_mask),
        !.concept_values = Append(@, a.concept_value),
        !.mlm_skip_values = Append(@, a.mlm_skip_value)]

EmptyCehrbertRecord(rec) ==
    [person_id |-> rec.patient_id,
     concept_ids |-> <<>>, visit_segments |-> <<>>, orders |-> <<>>,
     dates |-> <<>>, ages |-> <<>>, visit_concept_orders |-> <<>>,
     concept_value_masks |-> <<>>, concept_values |-> <<>>,
     mlm_skip_values |-> <<>>, visit_concept_ids |-> <<>>]

(***************************************************************************)
(* sorted(record['visits'], key=visit_start_datetime): a stable sort.      *)
(***************************************************************************)
RECURSIVE InsertVisit(_, _)
InsertVisit(sorted, v) ==
    IF sorted = <<>> THEN <<v>>
    ELSE IF TotalSeconds(v.visit_start_datetime)
              < TotalSeconds(Head(sorted).visit_start_datetime)
         THEN <<v>> \o sorted
         ELSE <<Head(sorted)>> \o InsertVisit(Tail(sorted), v)

RECURSIVE SortedVisitsFrom(_, _)
SortedVisitsFrom(sorted, rest) ==
    IF rest = <<>> THEN sorted
    ELSE SortedVisitsFrom(InsertVisit(sorted, Head(rest)), Tail(rest))

\* Variant: the visits are processed in the order of the input list.
UnsortedVisits(vs) == vs

SortedVisits(vs) == SortedVisitsFrom(<<>>, vs)

WeeksSinceEpoch(dt) == TimedeltaDays(dt, Epoch) \div 7

IsInpatient(visit_type) ==
    visit_type \in INPATIENT_VISIT_TYPES
        \/ visit_type \in INPATIENT_VISIT_TYPE_CODES

(***************************************************************************)
(* The body of the event loop of transform, for one event e.  st carries   *)
(* the record, the age/date in force and the date cursor.                  *)
(***************************************************************************)
\* The arguments of a token anchored to the visit at enumerate() index idx.
Anchored(code, visit, idx, visit_segment, age, date) ==
    [DefaultArgs(code)
     EXCEPT !.visit_concept_order = idx + 1, !.age = age, !.date = date,
            !.visit_segment = visit_segment,
            !.visit_concept_id = visit.visit_type]

\* Lines 249-259: the i-<token> in front of an event meas_time_diff days
\* after the date cursor.
WithInpatientAtt(rec, cfg, visit, idx, visit_segment, meas_time_diff) ==
    IF meas_time_diff > 0 /\ cfg.inpatient_att_function_type # "none"
    THEN update_cehrbert_record(rec,
            [DefaultArgs("i-" \o ApplyAtt(cfg.inpatient_att_function_type,
                                         meas_time_diff))
             EXCEPT !.visit_concept_order = idx + 1,
                    !.visit_segment = visit_segment,
                    !.visit_concept_id = visit.visit_type])
    ELSE rec

\* Lines 261-276: the token of the event itself.
WithEventToken(rec, e, visit, idx, visit_segment, age, date, mask) ==
    update_cehrbert_record(rec,
        [Anchored(e.code, visit, idx, visit_segment, age, date)
         EXCEPT !.concept_value_mask = mask,
                !.concept_value = IF mask = 1 THEN e.numeric_value[1] ELSE -10,
                !.mlm_skip_value = mask])

EventEmit(st, e, cfg, visit, idx, visit_segment, age, date, meas_time_diff) ==
    [rec |-> WithEventToken(
                WithInpatientAtt(st.rec, cfg, visit, idx, visit_segment,
                                 meas_time_diff),
                e, visit, idx, visit_segment, age, date,
                IF e.numeric_value # NoValue THEN 1 ELSE 0),
     age |-> age,
     date |-> date,
     cursor |-> IF meas_time_diff > 0 THEN e.time ELSE st.cursor]

EventBody(st, e, cfg, rec_in, visit, idx, visit_segment) ==
    IF e.time = NoTime THEN st
    ELSE EventEmit(st, e, cfg, visit, idx, visit_segment,
            IF IsInpatient(visit.visit_type)
            THEN RelativedeltaYears(e.time, rec_in.birth_datetime) ELSE st.age,
            IF IsInpatient(visit.visit_type)
            THEN WeeksSinceEpoch(e.time) ELSE st.date,
            RelativedeltaDays(e.time, st.cursor))

RECURSIVE EventLoop(_, _, _, _, _, _, _)
EventLoop(st, events, cfg, rec_in, visit, idx, visit_segment) ==
    IF events = <<>> THEN st
    ELSE EventLoop(
            EventBody(st, Head(events), cfg, rec_in, visit, idx, visit_segment),
            Tail(events), cfg, rec_in, visit, idx, visit_segment)

(***************************************************************************)
(* The body of the visit loop of transform for a visit with events: the    *)
(* record and the date cursor after the visit at enumerate() index idx.    *)
(***************************************************************************)
\* Lines 185, 192-199: the artificial time token in front of the visit.
WithVisitAtt(rec, cfg, idx, has_cursor, time_delta) ==
    IF has_cursor /\ time_delta # 0
    THEN update_cehrbert_record(rec,
            [DefaultArgs(ApplyAtt(cfg.att_function_type, time_delta))
             EXCEPT !.visit_concept_order = idx + 1])
    ELSE rec

\* Lines 201-226: [VS] and the visit type token.
WithVisitStart(rec, cfg, visit, idx, visit_segment, age, date) ==
    IF cfg.include_auxiliary_token
    THEN update_cehrbert_record(
            update_cehrbert_record(rec,
                Anchored("[VS]", visit, idx, visit_segment, age, date)),
            Anchored(visit.visit_type, visit, idx, visit_segment, age, date))
    ELSE update_cehrbert_record(rec,
            Anchored("[VS]", visit, idx, visit_segment, age, date))

VisitOpen(rec, cfg, visit, idx, visit_segment, age, date) ==
    [rec |-> WithVisitStart(rec, cfg, visit, idx, visit_segment, age, date),
     age |-> age, date |-> date, cursor |-> visit.visit_start_datetime]

\* Lines 284-300: the discharge facility token of an inpatient visit.
WithDischargeFacility(st, cfg, visit, idx, visit_segment) ==
    IF IsInpatient(visit.visit_type) /\ cfg.include_auxiliary_token
    THEN update_cehrbert_record(st.rec,
            Anchored(IF visit.discharge_facility # ""
                     THEN visit.discharge_facility ELSE "0",
                     visit, idx, visit_segment, st.age, st.date))
    ELSE st.rec

\* Variant: the visit ends without its [VE] token.
VisitCloseUnmarked(st, cfg, visit, idx, visit_segment) ==
    [rec |-> WithDischargeFacility(st, cfg, visit, idx, visit_segment),
     cursor |-> IF IsInpatient(visit.visit_type)
                   /\ visit.visit_end_datetime # NoTime
                THEN visit.visit_end_datetime ELSE st.cursor]

\* Lines 278-311: the end of the visit.
VisitClose(st, cfg, visit, idx, visit_segment) ==
    [rec |-> update_cehrbert_record(
                WithDischargeFacility(st, cfg, visit, idx, visit_segment),
                Anchored("[VE]", visit, idx, visit_segment, st.age, st.date)),
     cursor |-> IF IsInpatient(visit.visit_type)
                   /\ visit.visit_end_datetime # NoTime
                THEN visit.visit_end_datetime ELSE st.cursor]

VisitSegment(indicator) == IF indicator THEN 2 ELSE 1

VisitBody(rec, cursor, indicator, cfg, rec_in, visit, idx) ==
    VisitClose(
        EventLoop(
            VisitOpen(
                WithVisitAtt(rec, cfg, idx, cursor # NoTime,
                    IF cursor # NoTime
                    THEN TimedeltaDays(visit.visit_start_datetime, cursor)
                    ELSE 0),
                cfg, visit, idx, VisitSegment(indicator),
                RelativedeltaYears(visit.visit_start_datetime,
                                   rec_in.birth_datetime),
                WeeksSinceEpoch(visit.visit_start_datetime)),
            visit.events, cfg, rec_in, visit, idx, VisitSegment(indicator)),
        cfg, visit, idx, VisitSegment(indicator))

(***************************************************************************)
(* The actions of MedToCehrBertDatasetMapping.transform.                   *)
(***************************************************************************)
TransformInit ==
    /\ pc = "prompt"
    /\ record \in { PatientRecord(vs) : vs \in VisitLists }
    /\ config \in Configs
    /\ cehrbert_record = EmptyCehrbertRecord(record)
    /\ i = 0
    /\ visit_segment_indicator = FALSE
    /\ date_cursor = NoTime

\* Lines 159-167: the demographic prompt, taken from record['visits'][0].
DemographicPrompt ==
    /\ pc = "prompt"
    /\ config.include_demographic_prompt
    /\ LET first_visit == record.visits[1]
           year_str == "year:" \o Str(first_visit.visit_start_datetime.y)
           age_str == "age:" \o Str(RelativedeltaYears(
                          first_visit.visit_start_datetime,
                          record.birth_datetime))
           r1 == update_cehrbert_record(cehrbert_record, DefaultArgs(year_str))
           r2 == update_cehrbert_record(r1, DefaultArgs(age_str))
           r3 == update_cehrbert_record(r2, DefaultArgs(record.gender))
           r4 == update_cehrbert_record(r3, DefaultArgs(record.race))
       IN  cehrbert_record' = r4
    /\ pc' = "visits"
    /\ UNCHANGED <<record, config, i, visit_segment_indicator, date_cursor,
                   sort_vars, convert_vars, later_vars>>

NoDemographicPrompt ==
    /\ pc = "prompt"
    /\ ~config.include_demographic_prompt
    /\ pc' = "visits"
    /\ UNCHANGED <<transform_vars, sort_vars, convert_vars, later_vars>>

SkipVisitToggling ==
    /\ pc = "visits"
    /\ i < Len(record.visits)
    /\ SortedVisits(record.visits)[i + 1].events = <<>>
    /\ i' = i + 1
    /\ visit_segment_indicator' = ~visit_segment_indicator
    /\ UNCHANGED <<pc, record, config, cehrbert_record, date_cursor,
                   sort_vars, convert_vars, later_vars>>

\* Lines 178-182: a visit without events is skipped.
SkipVisit ==
    /\ pc = "visits"
    /\ i < Len(record.visits)
    /\ SortedVisits(record.visits)[i + 1].events = <<>>
    /\ i' = i + 1
    /\ UNCHANGED <<pc, record, config, cehrbert_record,
                   visit_segment_indicator, date_cursor,
                   sort_vars, convert_vars, later_vars>>

\* Lines 184-314: a visit with events is emitted.
EmitVisit ==
    /\ pc = "visits"
    /\ i < Len(record.visits)
    /\ LET visit == SortedVisits(record.visits)[i + 1]
           out == VisitBody(cehrbert_record, date_cursor,
                            visit_segment_indicator, config, record, visit, i)
       IN  /\ visit.events # <<>>
           /\ cehrbert_record' = out.rec
           /\ date_cursor' = out.cursor
    /\ visit_segment_indicator' = ~visit_segment_indicator
    /\ i' = i + 1
    /\ UNCHANGED <<pc, record, config, sort_vars, convert_vars, later_vars>>

\* Lines 316-328: orders and the counts.
FinishTransform ==
    /\ pc = "visits"
    /\ i = Len(record.visits)
    /\ cehrbert_record' =
          [cehrbert_record EXCEPT
              !.orders = [k \in 1..Len(cehrbert_record.concept_ids) |-> k]]
          @@ [num_of_concepts |-> Len(cehrbert_record.concept_ids),
              num_of_visits |-> Len(record.visits)]
    /\ pc' = "done"
    /\ UNCHANGED <<record, config, i, visit_segment_indicator, date_cursor,
                   sort_vars, convert_vars, later_vars>>

(***************************************************************************)
(* SortPatientSequenceMapping.  A record (a Python dict, which keeps the   *)
(* insertion order of its keys) is a sequence of columns; a column holds   *)
(* its key, whether its value is a list, and the value (a scalar x is the  *)
(* one-element sequence <<x>>).                                            *)
(***************************************************************************)
Col(k, is_list, v) == [k |-> k, is_list |-> is_list, v |-> v]

HasKey(rec, k) == \E j \in DOMAIN rec : rec[j].k = k

\* record[k]
Get(rec, k) == rec[CHOOSE j \in DOMAIN rec : rec[j].k = k].v

\* The concept ids of the sort inputs in Python's string order
\* ('3' sorts before '[').
SortedVocab == <<"320128", "[VS]">>

LexRank(c) == CHOOSE r \in DOMAIN SortedVocab : SortedVocab[r] = c

\* Variant: the rows are sorted in descending key order.
RowGreater(a, b, keys, ids) ==
    \/ keys[a] > keys[b]
    \/ keys[a] = keys[b] /\ LexRank(ids[a]) > LexRank(ids[b])

\* key=lambda tup2: (tup2[0], tup2[1]): row a sorts strictly before row b.
RowLess(a, b, keys, ids) ==
    \/ keys[a] < keys[b]
    \/ keys[a] = keys[b] /\ LexRank(ids[a]) < LexRank(ids[b])

\* Variant: row r goes in front of the first row that is not smaller (an
\* unstable sort that swaps ties).
RECURSIVE InsertRowBeforeTies(_, _, _, _)
InsertRowBeforeTies(perm, r, keys, ids) ==
    IF perm = <<>> THEN <<r>>
    ELSE IF ~RowLess(Head(perm), r, keys, ids) THEN <<r>> \o perm
    ELSE <<Head(perm)>> \o InsertRowBeforeTies(Tail(perm), r, keys, ids)

\* sorted() is stable: row r goes in front of the first row that is
\* strictly greater.
RECURSIVE InsertRow(_, _, _, _)
InsertRow(perm, r, keys, ids) ==
    IF perm = <<>> THEN <<r>>
    ELSE IF RowLess(r, Head(perm), keys, ids) THEN <<r>> \o perm
    ELSE <<Head(perm)>> \o InsertRow(Tail(perm), r, keys, ids)

\* The row order of sorted(zip(sorting_columns, *column_values), key=...).
RECURSIVE SortRows(_, _, _, _, _)
SortRows(perm, r, m, keys, ids) ==
    IF r > m THEN perm
    ELSE SortRows(InsertRow(perm, r, keys, ids), r + 1, m, keys, ids)

\* Lines 347-349: orders, else dates.
SortingColumn(rec) ==
    IF HasKey(rec, "orders") THEN Get(rec, "orders") ELSE Get(rec, "dates")

Min(a, b) == IF a < b THEN a ELSE b

\* Lines 355-364: concept_ids first, then every other list of that length.
SortedColumnsOf(rec, seq_length) ==
    LET Other(c) == c.k # "concept_ids" /\ c.is_list /\ Len(c.v) = seq_length
        First(c) == c.k = "concept_ids"
    IN  SelectSeq(rec, First) \o SelectSeq(rec, Other)

\* Lines 366-376: zip stops at the shortest column; without rows the
\* transposed list is empty and no column is written.
Rearranged(cols, perm) ==
    IF perm = <<>> THEN <<>>
    ELSE [j \in DOMAIN cols |->
            Col(cols[j].k, TRUE, [r \in DOMAIN perm |-> cols[j].v[perm[r]]])]

SortTransform(rec) ==
    IF ~HasKey(rec, "orders") /\ ~HasKey(rec, "dates") THEN rec
    ELSE Rearranged(
            SortedColumnsOf(rec, Len(Get(rec, "concept_ids"))),
            SortRows(<<>>, 1,
                     Min(Len(SortingColumn(rec)), Len(Get(rec, "concept_ids"))),
                     SortingColumn(rec), Get(rec, "concept_ids")))

\* The input records: a scalar person_id, concept_ids, optional orders and
\* dates with one integer per token, and a scalar num_of_concepts.
DateValues == {2832, 2833}

OptionalColumn(k, present, v) == IF present THEN <<Col(k, TRUE, v)>> ELSE <<>>

SortRecord(ids, has_orders, orders, has_dates, dates) ==
    <<Col("person_id", FALSE, <<0>>), Col("concept_ids", TRUE, ids)>>
        \o OptionalColumn("orders", has_orders, orders)
        \o OptionalColumn("dates", has_dates, dates)
        \o <<Col("num_of_concepts", FALSE, <<Len(ids)>>)>>

SortInit ==
    /\ pc = "sort"
    /\ \E n \in 0..MaxSeqLen, has_orders \in BOOLEAN, has_dates \in BOOLEAN :
         \E ids \in [1..n -> {SortedVocab[1], SortedVocab[2]}],
            orders \in [1..n -> 1..n],
            dates \in [1..n -> DateValues] :
              sort_record = SortRecord(ids, has_orders, orders, has_dates, dates)
    /\ sort_once = <<>>
    /\ sort_twice = <<>>

\* transform(record)
ApplySort ==
    /\ pc = "sort"
    /\ sort_once' = SortTransform(sort_record)
    /\ pc' = "sorted"
    /\ UNCHANGED <<sort_record, sort_twice, transform_vars, convert_vars, later_vars>>

\* transform(transform(record))
ApplySortAgain ==
    /\ pc = "sorted"
    /\ sort_twice' = SortTransform(sort_once)
    /\ pc' = "sorted_twice"
    /\ UNCHANGED <<sort_record, sort_once, transform_vars, convert_vars, later_vars>>

(***************************************************************************)
(* convert_one_patient (meds_utils.py): same-day blocks, the block scan,   *)
(* the visit-id update and the grouping into visits.                       *)
(***************************************************************************)
UNKNOWN_VALUE == "Unknown"
DEFAULT_ED_CONCEPT_ID == "9203"
DEFAULT_OUTPATIENT_CONCEPT_ID == "9202"
DEFAULT_INPATIENT_CONCEPT_ID == "9201"

\* MedsToCehrbertMIMIC4: the matching rules.  An event code is the pair
\* <<rule-sized prefix, rest>>, so that re.match(rule, code) is a comparison
\* with the prefix.
get_ed_admission_matching_rules == {"ED_REGISTRATION//", "TRANSFER_TO//ED"}
get_admission_matching_rules == {"HOSPITAL_ADMISSION//"}
get_discharge_matching_rules == {"HOSPITAL_DISCHARGE//"}

Matches(rules, code) == code[1] \in rules

\* re.sub(r'[^a-zA-Z]', '', rest) on the rests the streams use.
LettersOnly(rest) ==
    CASE rest = "HOME HEALTH CARE" -> "HOMEHEALTHCARE"
      [] rest = "EW EMER." -> "EWEMER"
      [] OTHER -> ""

\* The event codes of the input streams: ED registration, hospital
\* admission, hospital discharge and a laboratory result.
EventCodes ==
    { <<"ED_REGISTRATION//", "">>,
      <<"HOSPITAL_ADMISSION//", "EW EMER.">>,
      <<"HOSPITAL_DISCHARGE//", "HOME HEALTH CARE">>,
      <<"LAB//", "50912">> }

RECURSIVE DayAfter(_, _)
DayAfter(dt, n) == IF n = 0 THEN dt ELSE DayAfter(NextDay(dt), n - 1)

FirstDay == DT(2024, 2, 28)

\* 10:00:00, 10:00:01 and 22:00:00.
TimesOfDay == {36000, 36001, 79200}

At(dt, s) == [dt EXCEPT !.s = s]

EventTimes ==
    { At(DayAfter(FirstDay, n), s) : n \in 0..(MaxDays - 1), s \in TimesOfDay }

PredictionTimes == {NoTime, At(DayAfter(FirstDay, 1), 36000)}

RawEvent(time, code) == [time |-> time, code |-> code]

\* datetime.date()
DateOf(dt) == <<dt.y, dt.m, dt.d>>

\* (a - b).total_seconds()
TotalSecondsBetween(a, b) == TotalSeconds(a) - TotalSeconds(b)

SecondsPerHour == 3600
ED_ADMISSION_HOURS == 24
POST_DISCHARGE_HOURS == 12

HasMatch(events, rules) ==
    \E j \in DOMAIN events : Matches(rules, events[j].code)

BlockVisitType(has_admission, has_ed_admission) ==
    IF has_admission THEN DEFAULT_INPATIENT_CONCEPT_ID
    ELSE IF has_ed_admission THEN DEFAULT_ED_CONCEPT_ID
    ELSE DEFAULT_OUTPATIENT_CONCEPT_ID

\* PatientBlock.__init__
PatientBlock(events, vid) ==
    [ events |-> events,
      visit_id |-> vid,
      min_time |-> events[1].time,
      max_time |-> events[Len(events)].time,
      has_ed_admission |-> HasMatch(events, get_ed_admission_matching_rules),
      has_admission |-> HasMatch(events, get_admission_matching_rules),
      has_discharge |-> HasMatch(events, get_discharge_matching_rules),
      visit_type |->
          BlockVisitType(HasMatch(events, get_admission_matching_rules),
                         HasMatch(events, get_ed_admission_matching_rules)) ]

\* PatientBlock.get_discharge_facility; "" is None.
get_discharge_facility(block) ==
    IF block.has_discharge
    THEN LET j == CHOOSE j \in DOMAIN block.events :
                    /\ Matches(get_discharge_matching_rules, block.events[j].code)
                    /\ \A k \in 1..(j - 1) :
                          ~Matches(get_discharge_matching_rules,
                                   block.events[k].code)
         IN LettersOnly(block.events[j].code[2])
    ELSE ""

\* PatientBlock.get_meds_events for events without text values.
get_meds_events(block) ==
    [ j \in DOMAIN block.events |->
        [ code |-> block.events[j].code,
          time |-> block.events[j].time,
          visit_id |-> block.visit_id ] ]

\* The cursors of the block scan.
ScanState(ed, adm, pairs) ==
    [ active_ed_index |-> ed,
      active_admission_index |-> adm,
      admit_discharge_pairs |-> pairs ]

\* "Keep track of the ED block when there is no on-going admission"
TrackEd(st, idx, block) ==
    IF block.has_ed_admission /\ st.active_admission_index = 0
    THEN [st EXCEPT !.active_ed_index = idx]
    ELSE st

\* Variant: the 24-hour window excludes its end.
TrackAdmissionExclusive(st, idx, block, blocks) ==
    IF ~block.has_admission THEN st
    ELSE IF st.active_ed_index # 0
    THEN IF \/ TotalSecondsBetween(block.min_time,
                                   blocks[st.active_ed_index].max_time)
                  < ED_ADMISSION_HOURS * SecondsPerHour
            \/ st.active_ed_index = idx
         THEN [st EXCEPT !.active_admission_index = st.active_ed_index,
                         !.active_ed_index = 0]
         ELSE st
    ELSE [st EXCEPT !.active_admission_index = idx]

\* "Keep track of the admission block"
TrackAdmission(st, idx, block, blocks) ==
    IF ~block.has_admission THEN st
    ELSE IF st.active_ed_index # 0
    THEN IF \/ TotalSecondsBetween(block.min_time,
                                   blocks[st.active_ed_index].max_time)
                  <= ED_ADMISSION_HOURS * SecondsPerHour
            \/ st.active_ed_index = idx
         THEN [st EXCEPT !.active_admission_index = st.active_ed_index,
                         !.active_ed_index = 0]
         ELSE st
    ELSE [st EXCEPT !.active_admission_index = idx]

RecordPair(st, idx) ==
    IF st.active_admission_index # 0
    THEN Append(st.admit_discharge_pairs, <<st.active_admission_index, idx>>)
    ELSE st.admit_discharge_pairs

\* if patient_block.has_discharge: ...
TrackDischarge(st, idx, block) ==
    IF block.has_discharge
    THEN ScanState(0, 0, RecordPair(st, idx))
    ELSE st

\* Variant: the open-ended pair is recorded whether or not a
\* prediction_time was supplied.
TrackLastBlockAlways(st, idx, n, pt) ==
    IF idx = n /\ st.active_admission_index # 0
    THEN [st EXCEPT !.admit_discharge_pairs = RecordPair(st, idx)]
    ELSE st

\* "Check the last block of the patient history ..."
TrackLastBlock(st, idx, n, pt) ==
    IF idx = n /\ st.active_admission_index # 0 /\ pt # NoTime
    THEN [st EXCEPT !.admit_discharge_pairs = RecordPair(st, idx)]
    ELSE st

\* The body of the block scan for block idx.
ScanBody(st, idx, blocks, pt) ==
    TrackLastBlock(
        TrackDischarge(
            TrackAdmission(TrackEd(st, idx, blocks[idx]), idx, blocks[idx],
                           blocks),
            idx, blocks[idx]),
        idx, Len(blocks), pt)

\* The cursors after the first n blocks have been scanned.
RECURSIVE ScanPrefix(_, _, _)
ScanPrefix(blocks, n, pt) ==
    IF n = 0 THEN ScanState(0, 0, <<>>)
    ELSE ScanBody(ScanPrefix(blocks, n - 1, pt), n, blocks, pt)

AsInpatient(block, vid) ==
    [block EXCEPT !.visit_id = vid, !.visit_type = DEFAULT_INPATIENT_CONCEPT_ID]

\* for i in range(admit_index, discharge_index + 1): ...
SpreadVisitId(blocks, admit_index, discharge_index, vid) ==
    [ j \in DOMAIN blocks |->
        IF j \in admit_index..discharge_index
        THEN AsInpatient(blocks[j], vid)
        ELSE blocks[j] ]

\* Variant: the 12-hour window excludes its end.
AbsorbNextBlockExclusive(blocks, discharge_index, discharge_max_time, vid) ==
    IF /\ discharge_index + 1 <= Len(blocks)
       /\ TotalSecondsBetween(blocks[discharge_index + 1].min_time,
                              discharge_max_time)
             < POST_DISCHARGE_HOURS * SecondsPerHour
    THEN [blocks EXCEPT ![discharge_index + 1] = AsInpatient(@, vid)]
    ELSE blocks

\* "we need to check if the time stamp of the next block is within 12 hours"
AbsorbNextBlock(blocks, discharge_index, discharge_max_time, vid) ==
    IF /\ discharge_index + 1 <= Len(blocks)
       /\ TotalSecondsBetween(blocks[discharge_index + 1].min_time,
                              discharge_max_time)
             <= POST_DISCHARGE_HOURS * SecondsPerHour
    THEN [blocks EXCEPT ![discharge_index + 1] = AsInpatient(@, vid)]
    ELSE blocks

\* The body of the visit-id update for one (admit, discharge) pair.
UpdatePair(blocks, pair) ==
    AbsorbNextBlock(
        SpreadVisitId(blocks, pair[1], pair[2], blocks[pair[1]].visit_id),
        pair[2], blocks[pair[2]].max_time, blocks[pair[1]].visit_id)

RECURSIVE UpdatePairs(_, _)
UpdatePairs(blocks, pairs) ==
    IF pairs = <<>> THEN blocks
    ELSE UpdatePairs(UpdatePair(blocks, Head(pairs)), Tail(pairs))

\* patient_block_dict[visit_id]
BlocksOf(blocks, vid) == SelectSeq(blocks, LAMBDA b : b.visit_id = vid)

EarliestTime(times) ==
    CHOOSE t \in times : \A u \in times : TotalSeconds(t) <= TotalSeconds(u)

LatestTime(times) ==
    CHOOSE t \in times : \A u \in times : TotalSeconds(t) >= TotalSeconds(u)

\* next(filter(None, [b.get_discharge_facility() for b in blocks]), None)
FirstFacility(members) ==
    IF \E j \in DOMAIN members : get_discharge_facility(members[j]) # ""
    THEN get_discharge_facility(
             members[CHOOSE j \in DOMAIN members :
                        /\ get_discharge_facility(members[j]) # ""
                        /\ \A k \in 1..(j - 1) :
                              get_discharge_facility(members[k]) = ""])
    ELSE ""

RECURSIVE ExtendEvents(_)
ExtendEvents(members) ==
    IF members = <<>> THEN <<>>
    ELSE get_meds_events(Head(members)) \o ExtendEvents(Tail(members))

FacilityOrUnknown(visit_type, facility) ==
    IF visit_type = DEFAULT_INPATIENT_CONCEPT_ID /\ facility # ""
    THEN facility
    ELSE UNKNOWN_VALUE

\* Variant: a visit is built from the first block of its group only.
GroupedVisitOfFirstBlock(members) ==
    [ visit_type |-> members[1].visit_type,
      visit_start_datetime |-> members[1].min_time,
      visit_end_datetime |-> members[1].max_time,
      discharge_facility |->
          FacilityOrUnknown(members[1].visit_type, FirstFacility(members)),
      events |-> get_meds_events(members[1]) ]

\* Visit(...) of one group of blocks.
GroupedVisit(members) ==
    [ visit_type |-> members[1].visit_type,
      visit_start_datetime |->
          EarliestTime({ members[j].min_time : j \in DOMAIN members }),
      visit_end_datetime |->
          LatestTime({ members[j].max_time : j \in DOMAIN members }),
      discharge_facility |->
          FacilityOrUnknown(members[1].visit_type, FirstFacility(members)),
      events |-> ExtendEvents(members) ]

\* for visit_id, blocks in patient_block_dict.items(): a dict keeps its
\* keys in the order of their first insertion.
RECURSIVE GroupVisitsFrom(_, _)
GroupVisitsFrom(blocks, j) ==
    IF j > Len(blocks) THEN <<>>
    ELSE (IF \E k \in 1..(j - 1) : blocks[k].visit_id = blocks[j].visit_id
          THEN <<>>
          ELSE <<GroupedVisit(BlocksOf(blocks, blocks[j].visit_id))>>)
         \o GroupVisitsFrom(blocks, j + 1)

default_visit_id == 1

ConvertInit ==
    /\ pc = "read"
    /\ prediction_time \in PredictionTimes
    /\ visit_id = default_visit_id
    /\ current_date = NoTime
    /\ events_for_current_date = <<>>
    /\ patient_blocks = <<>>
    /\ n_read = 0
    /\ patient_events = <<>>
    /\ admit_discharge_pairs = <<>>
    /\ active_ed_index = 0
    /\ active_admission_index = 0
    /\ block_index = 0
    /\ visits = <<>>

\* The events the time-ordered stream can deliver next.
NextEvents ==
    { RawEvent(t, c) : t \in EventTimes, c \in EventCodes }

InStreamOrder(e) ==
    IF events_for_current_date = <<>> THEN TRUE
    ELSE TotalSeconds(e.time) >=
            TotalSeconds(events_for_current_date[Len(events_for_current_date)].time)

\* Variant: an event at the prediction time itself ends the loop as well.
AtOrBeyondPredictionTime(e) ==
    IF prediction_time = NoTime THEN FALSE
    ELSE TotalSeconds(e.time) >= TotalSeconds(prediction_time)

\* if prediction_time is not None and e.time is not None:
\*     if e.time > prediction_time: break
BeyondPredictionTime(e) ==
    IF prediction_time = NoTime THEN FALSE
    ELSE TotalSeconds(e.time) > TotalSeconds(prediction_time)

\* if events_for_current_date: patient_blocks.append(PatientBlock(...))
FlushedBlocks ==
    IF events_for_current_date # <<>>
    THEN Append(patient_blocks, PatientBlock(events_for_current_date, visit_id))
    ELSE patient_blocks

\* One iteration of "for e in patient.events" with an event of the current
\* date (or the first event).
ReadSameDateEvent ==
    /\ pc = "read"
    /\ n_read < MaxEvents
    /\ \E e \in NextEvents :
         /\ InStreamOrder(e)
         /\ ~BeyondPredictionTime(e)
         /\ (IF current_date = NoTime THEN TRUE
             ELSE DateOf(current_date) = DateOf(e.time))
         /\ current_date' = IF current_date = NoTime THEN e.time ELSE current_date
         /\ events_for_current_date' = Append(events_for_current_date, e)
         /\ patient_events' = Append(patient_events, e)
    /\ n_read' = n_read + 1
    /\ UNCHANGED <<pc, prediction_time, visit_id, patient_blocks,
                   admit_discharge_pairs, active_ed_index,
                   active_admission_index, block_index, visits,
                   transform_vars, sort_vars, later_vars>>

\* One iteration with an event of a new date: the block of the current
\* date is closed.
ReadNewDateEvent ==
    /\ pc = "read"
    /\ n_read < MaxEvents
    /\ current_date # NoTime
    /\ \E e \in NextEvents :
         /\ InStreamOrder(e)
         /\ ~BeyondPredictionTime(e)
         /\ DateOf(current_date) # DateOf(e.time)
         /\ current_date' = e.time
         /\ events_for_current_date' = <<e>>
         /\ patient_events' = Append(patient_events, e)
    /\ patient_blocks' =
          Append(patient_blocks, PatientBlock(events_for_current_date, visit_id))
    /\ visit_id' = visit_id + 1
    /\ n_read' = n_read + 1
    /\ UNCHANGED <<pc, prediction_time, admit_discharge_pairs, active_ed_index,
                   active_admission_index, block_index, visits,
                   transform_vars, sort_vars, later_vars>>

\* The event read is beyond the prediction time: break, then the last
\* block is flushed.
BreakAtPredictionTime ==
    /\ pc = "read"
    /\ n_read < MaxEvents
    /\ \E e \in NextEvents :
         /\ InStreamOrder(e)
         /\ BeyondPredictionTime(e)
         /\ patient_events' = Append(patient_events, e)
    /\ patient_blocks' = FlushedBlocks
    /\ n_read' = n_read + 1
    /\ block_index' = 1
    /\ pc' = "scan"
    /\ UNCHANGED <<prediction_time, visit_id, current_date,
                   events_for_current_date, admit_discharge_pairs,
                   active_ed_index, active_admission_index, visits,
                   transform_vars, sort_vars, later_vars>>

\* The stream is exhausted: the last block is flushed.
EndOfEvents ==
    /\ pc = "read"
    /\ patient_blocks' = FlushedBlocks
    /\ block_index' = 1
    /\ pc' = "scan"
    /\ UNCHANGED <<prediction_time, visit_id, current_date,
                   events_for_current_date, n_read, patient_events,
                   admit_discharge_pairs, active_ed_index,
                   active_admission_index, visits,
                   transform_vars, sort_vars, later_vars>>

ScanNow ==
    ScanBody(ScanState(active_ed_index, active_admission_index,
                       admit_discharge_pairs),
             block_index, patient_blocks, prediction_time)

\* One iteration of "for i, patient_block in enumerate(patient_blocks)".
ScanBlock ==
    /\ pc = "scan"
    /\ block_index <= Len(patient_blocks)
    /\ active_ed_index' = ScanNow.active_ed_index
    /\ active_admission_index' = ScanNow.active_admission_index
    /\ admit_discharge_pairs' = ScanNow.admit_discharge_pairs
    /\ block_index' = block_index + 1
    /\ UNCHANGED <<pc, prediction_time, visit_id, current_date,
                   events_for_current_date, patient_blocks, n_read,
                   patient_events, visits,
                   transform_vars, sort_vars, later_vars>>

\* "Update visit_id for the admission blocks": the whole loop.
UpdateVisitIds ==
    /\ pc = "scan"
    /\ block_index > Len(patient_blocks)
    /\ patient_blocks' = UpdatePairs(patient_blocks, admit_discharge_pairs)
    /\ pc' = "group"
    /\ UNCHANGED <<prediction_time, visit_id, current_date,
                   events_for_current_date, n_read, patient_events, admit_discharge_pairs,
                   active_ed_index, active_admission_index, block_index,
                   visits, transform_vars, sort_vars, later_vars>>

\* The blocks are grouped by visit id into the returned visits.
GroupVisits ==
    /\ pc = "group"
    /\ visits' = GroupVisitsFrom(patient_blocks, 1)
    /\ pc' = "returned"
    /\ UNCHANGED <<prediction_time, visit_id, current_date,
                   events_for_current_date, patient_blocks, n_read, patient_events,
                   admit_discharge_pairs, active_ed_index,
                   active_admission_index, block_index, transform_vars,
                   sort_vars, later_vars>>

(***************************************************************************)
(* Values of the variables of the programs that are not running.           *)
(***************************************************************************)
TransformIdle ==
    /\ record = <<>>
    /\ config = <<>>
    /\ cehrbert_record = <<>>
    /\ i = 0
    /\ visit_segment_indicator = FALSE
    /\ date_cursor = NoTime

SortIdle ==
    /\ sort_record = <<>>
    /\ sort_once = <<>>
    /\ sort_twice = <<>>

ConvertIdle ==
    /\ prediction_time = NoTime
    /\ visit_id = 0
    /\ current_date = NoTime
    /\ events_for_current_date = <<>>
    /\ patient_blocks = <<>>
    /\ n_read = 0
    /\ patient_events = <<>>
    /\ admit_discharge_pairs = <<>>
    /\ active_ed_index = 0
    /\ active_admission_index = 0
    /\ block_index = 0
    /\ visits = <<>>

MergeIdle ==
    /\ concept_embeddings = <<>>
    /\ visit_embeddings = <<>>
    /\ layer = 0

StatsIdle ==
    /\ raw_data = <<>>
    /\ add_error = ""

TokenizeIdle ==
    /\ mapping = <<>>
    /\ token_record = <<>>
    /\ token_output = <<>>

EventIdle ==
    /\ event = <<>>
    /\ converted_events = <<>>

AncestryIdle ==
    /\ concept_relationship = {}
    /\ concept_ids = {}
    /\ ancestry_table = {}
    /\ candidate_set = {}

DecorateIdle ==
    /\ decorators = <<>>
    /\ raw_patient_event = {}
    /\ patient_event = {}

GridIdle ==
    /\ grid_search_file = <<>>
    /\ grid_search_config = <<>>

MoreIdle == DecorateIdle /\ GridIdle

LaterIdle ==
    /\ MergeIdle /\ StatsIdle /\ TokenizeIdle /\ EventIdle /\ AncestryIdle
    /\ MoreIdle

PipelineIdle == TransformIdle /\ SortIdle /\ ConvertIdle

(***************************************************************************)
(* Spec: MedToCehrBertDatasetMapping.transform on every input record.      *)
(***************************************************************************)
Init == TransformInit /\ SortIdle /\ ConvertIdle /\ LaterIdle

Next ==
    \/ DemographicPrompt
    \/ NoDemographicPrompt
    \/ SkipVisit
    \/ EmitVisit
    \/ FinishTransform

Spec == Init /\ [][Next]_vars

(***************************************************************************)
(* SortSpec: SortPatientSequenceMapping.transform, applied once and twice. *)
(***************************************************************************)
SortSpecInit == SortInit /\ TransformIdle /\ ConvertIdle /\ LaterIdle

SortNext ==
    \/ ApplySort
    \/ ApplySortAgain

SortSpec == SortSpecInit /\ [][SortNext]_vars

(***************************************************************************)
(* ConvertSpec: convert_one_patient on every time-ordered event stream.    *)
(***************************************************************************)
ConvertSpecInit == ConvertInit /\ TransformIdle /\ SortIdle /\ LaterIdle

ConvertNext ==
    \/ ReadSameDateEvent
    \/ ReadNewDateEvent
    \/ BreakAtPredictionTime
    \/ EndOfEvents
    \/ ScanBlock
    \/ UpdateVisitIds
    \/ GroupVisits

ConvertSpec == ConvertSpecInit /\ [][ConvertNext]_vars

(***************************************************************************)
(* transformer_hierarchical_bert_model (hierachical_bert_model_v2.py): the *)
(* exchange rounds between the concept view and the visit view of one      *)
(* patient.  An embedding is one integer (embedding_size 1, batch_size 1). *)
(* The trained encoders are arbitrary functions of their inputs, so their  *)
(* outputs are chosen freely from EmbeddingValues.  Slots are 1-based: the *)
(* code's slot 0 is slot 1 here.                                           *)
(***************************************************************************)
NumOfVisits == 2       \* num_of_visits
NumOfConcepts == 2     \* num_of_concepts
NumOfExchanges == 2    \* num_of_exchanges

EmbeddingValues == {0, 1}

VisitIndexes == 1..NumOfVisits

ConceptSlots == 1..NumOfConcepts

\* Lines 125-128: [1] + [0] * (num_of_concepts - 1).
merge_matrix == [c \in ConceptSlots |-> IF c = 1 THEN 1 ELSE 0]

\* Lines 130-133: [0] + [1] * (num_of_concepts - 1).
merge_matrix_inverse == [c \in ConceptSlots |-> IF c = 1 THEN 0 ELSE 1]

\* Lines 173-180: concept_embeddings += (concept_embeddings *
\* merge_matrix_inverse + expand_dims(visit_embeddings) * merge_matrix).
Merged(ce, ve) ==
    [v \in VisitIndexes |->
        [c \in ConceptSlots |->
            ce[v][c] + (ce[v][c] * merge_matrix_inverse[c]
                        + ve[v] * merge_matrix[c])]]

MergeInit ==
    /\ pc = "concept_encoder"
    /\ concept_embeddings \in [VisitIndexes -> [ConceptSlots -> EmbeddingValues]]
    /\ visit_embeddings = <<>>
    /\ layer = 0

\* Lines 141-159 (Step 1): the concept encoder contextualizes the concept
\* embeddings of each visit.
ConceptEncoder ==
    /\ pc = "concept_encoder"
    /\ layer < NumOfExchanges
    /\ concept_embeddings' \in
           [VisitIndexes -> [ConceptSlots -> EmbeddingValues]]
    /\ pc' = "slice"
    /\ UNCHANGED <<visit_embeddings, layer, transform_vars, sort_vars,
                   convert_vars, stats_vars, tokenize_vars, event_vars,
                   ancestry_vars,
                   more_vars>>

\* Line 163 (Step 2): visit_embeddings = concept_embeddings[:, :, 0].
SliceVisitEmbeddings ==
    /\ pc = "slice"
    /\ visit_embeddings' = [v \in VisitIndexes |-> concept_embeddings[v][1]]
    /\ pc' = "visit_encoder"
    /\ UNCHANGED <<concept_embeddings, layer, transform_vars, sort_vars,
                   convert_vars, stats_vars, tokenize_vars, event_vars,
                   ancestry_vars,
                   more_vars>>

\* Lines 165-171 (Step 3): the visit encoder contextualizes the visit
\* embeddings.
VisitEncoder ==
    /\ pc = "visit_encoder"
    /\ visit_embeddings' \in [VisitIndexes -> EmbeddingValues]
    /\ pc' = "merge"
    /\ UNCHANGED <<concept_embeddings, layer, transform_vars, sort_vars,
                   convert_vars, stats_vars, tokenize_vars, event_vars,
                   ancestry_vars,
                   more_vars>>

\* Lines 173-180: the visit embeddings are merged back, and the loop of
\* line 140 goes to its next round.
Merge ==
    /\ pc = "merge"
    /\ concept_embeddings' = Merged(concept_embeddings, visit_embeddings)
    /\ layer' = layer + 1
    /\ pc' = IF layer + 1 < NumOfExchanges THEN "concept_encoder"
                                           ELSE "exchanged"
    /\ UNCHANGED <<visit_embeddings, transform_vars, sort_vars, convert_vars,
                   stats_vars, tokenize_vars, event_vars, ancestry_vars,
                   more_vars>>

(***************************************************************************)
(* MergeSpec: the exchange rounds on every grid of embeddings.             *)
(***************************************************************************)
MergeSpecInit ==
    /\ MergeInit
    /\ PipelineIdle
    /\ MoreIdle
    /\ StatsIdle /\ TokenizeIdle /\ EventIdle /\ AncestryIdle

MergeNext ==
    \/ ConceptEncoder
    \/ SliceVisitEmbeddings
    \/ VisitEncoder
    \/ Merge

MergeSpec == MergeSpecInit /\ [][MergeNext]_vars

(***************************************************************************)
(* ExcludingOutlierOnlineStatistics (cehrbert.utils.stat_utils).  The      *)
(* class is exercised by excluding_outliers_online_statistics_test.py; its *)
(* add and reset follow the contract of the accumulator: add appends to    *)
(* the raw buffer and raises ValueError when the buffer already holds      *)
(* capacity observations, reset clears the buffer.  pc names the call that *)
(* returned last.                                                          *)
(***************************************************************************)
Capacity == 4          \* the capacity argument of the constructor

Observations == {0, 1, 2}

HasRoomAtCapacity(data) == Len(data) <= Capacity

HasRoom(data) == Len(data) < Capacity

StatsInit ==
    /\ pc = "constructed"
    /\ raw_data = <<>>
    /\ add_error = ""

\* add(value) on a buffer with room.
Add ==
    /\ pc \in {"constructed", "added", "add_failed", "reset"}
    /\ HasRoom(raw_data)
    /\ \E value \in Observations : raw_data' = Append(raw_data, value)
    /\ add_error' = ""
    /\ pc' = "added"
    /\ UNCHANGED <<transform_vars, sort_vars, convert_vars, merge_vars,
                   tokenize_vars, event_vars, ancestry_vars,
                   more_vars>>

\* add(value) on a full buffer.
AddBeyondCapacity ==
    /\ pc \in {"constructed", "added", "add_failed", "reset"}
    /\ ~HasRoom(raw_data)
    /\ add_error' = "ValueError"
    /\ pc' = "add_failed"
    /\ UNCHANGED <<raw_data, transform_vars, sort_vars, convert_vars,
                   merge_vars, tokenize_vars, event_vars, ancestry_vars,
                   more_vars>>

\* reset().
Reset ==
    /\ pc \in {"constructed", "added", "add_failed", "reset"}
    /\ raw_data' = <<>>
    /\ add_error' = ""
    /\ pc' = "reset"
    /\ UNCHANGED <<transform_vars, sort_vars, convert_vars, merge_vars,
                   tokenize_vars, event_vars, ancestry_vars,
                   more_vars>>

(***************************************************************************)
(* StatsSpec: every sequence of add and reset calls.                       *)
(***************************************************************************)
StatsSpecInit ==
    /\ StatsInit
    /\ PipelineIdle
    /\ MoreIdle
    /\ MergeIdle /\ TokenizeIdle /\ EventIdle /\ AncestryIdle

StatsNext ==
    \/ Add
    \/ AddBeyondCapacity
    \/ Reset

StatsSpec == StatsSpecInit /\ [][StatsNext]_vars

(***************************************************************************)
(* HFTokenizationMapping.transform (hf_dataset_mapping.py).  The mapping   *)
(* is constructed with a concept tokenizer, which is an input here: its    *)
(* vocabulary (encode looks every concept id up), its lab_token_ids and    *)
(* the mean that normalize subtracts from a value.  A record is a Python   *)
(* dict: the optional keys mlm_skip_values and labels carry a has_ flag.   *)
(***************************************************************************)
MaxTokens == 2         \* tokens per input record (tokenization)

TokenCodes == {"[VS]", "4134120"}

Vocabularies ==
    { [c \in TokenCodes |-> IF c = "[VS]" THEN 1 ELSE 2],
      [c \in TokenCodes |-> IF c = "[VS]" THEN 7 ELSE 4] }

ConceptTokenizers ==
    { [vocab |-> v, lab_token_ids |-> l, mean |-> 3] :
        v \in Vocabularies, l \in {{}, {2}, {4}} }

\* concept_tokenizer.encode(concept_ids)
Encode(tokenizer, ids) == [k \in DOMAIN ids |-> tokenizer.vocab[ids[k]]]

\* concept_tokenizer.normalize(concept_id, concept_value)
Normalize(tokenizer, concept_id, concept_value) ==
    concept_value - tokenizer.mean

\* Lines 405-414: the values of the lab tokens are normalized when any
\* position carries a value.
NormalizedValues(tokenizer, rec, input_ids) ==
    IF \E k \in DOMAIN rec.concept_value_masks : rec.concept_value_masks[k] > 0
    THEN [k \in DOMAIN rec.concept_values |->
             IF k <= Len(input_ids) /\ k <= Len(rec.concept_value_masks)
                /\ input_ids[k] \in tokenizer.lab_token_ids
             THEN Normalize(tokenizer, rec.concept_ids[k], rec.concept_values[k])
             ELSE rec.concept_values[k]]
    ELSE rec.concept_values

\* Variant: labels is the input_ids list itself instead of a deep copy.
AliasedLabels(input_ids, mlm_skip_values) ==
    [input_ids |-> [k \in DOMAIN input_ids |->
                       IF mlm_skip_values[k] = 1 THEN -100 ELSE input_ids[k]],
     labels |-> [k \in DOMAIN input_ids |->
                    IF mlm_skip_values[k] = 1 THEN -100 ELSE input_ids[k]]]

\* Lines 420-433: labels is a deep copy of input_ids with -100 at every
\* position whose mlm_skip_value is 1.
MaskedLabels(input_ids, mlm_skip_values) ==
    [input_ids |-> input_ids,
     labels |-> [k \in DOMAIN input_ids |->
                    IF mlm_skip_values[k] = 1 THEN -100 ELSE input_ids[k]]]

\* The largest concept_value_mask a token can have: only the laboratory
\* concept can come with a numeric value, and it can come without one.
ValueMask(code) == IF code = "4134120" THEN 1 ELSE 0

\* A token with a numeric value has mask 1 and the value (0.5, in tenths);
\* a token without one has mask 0 and the default value -1.
TokenRecord(ids, masks, has_skip, skip) ==
    [concept_ids |-> ids,
     concept_value_masks |-> masks,
     concept_values |-> [k \in DOMAIN ids |->
                            IF masks[k] = 1 THEN 5 ELSE -10],
     has_mlm_skip_values |-> has_skip,
     mlm_skip_values |-> skip]

TokenizeInit ==
    /\ pc = "tokenize"
    /\ mapping \in [concept_tokenizer : ConceptTokenizers,
                    is_pretraining : BOOLEAN]
    /\ \E n \in 1..MaxTokens :
          \E ids \in [1..n -> TokenCodes], masks \in [1..n -> {0, 1}] :
             /\ \A k \in 1..n : masks[k] <= ValueMask(ids[k])
             /\ \/ token_record = TokenRecord(ids, masks, FALSE, <<>>)
                \/ \E m \in 1..MaxTokens : \E skip \in [1..m -> {0, 1}] :
                      token_record = TokenRecord(ids, masks, TRUE, skip)
    /\ token_output = <<>>

WithInputIds(rec, tokenizer) ==
    [concept_ids |-> rec.concept_ids,
     concept_value_masks |-> rec.concept_value_masks,
     concept_values |->
        NormalizedValues(tokenizer, rec, Encode(tokenizer, rec.concept_ids)),
     has_mlm_skip_values |-> rec.has_mlm_skip_values,
     mlm_skip_values |-> rec.mlm_skip_values,
     input_ids |-> Encode(tokenizer, rec.concept_ids),
     has_labels |-> FALSE,
     labels |-> <<>>]

BuildsLabels == mapping.is_pretraining /\ token_record.has_mlm_skip_values

\* Lines 399-414, 435: outside pretraining, or without mlm_skip_values, the
\* record is returned with input_ids and the normalized values.
TokenizeWithoutLabels ==
    /\ pc = "tokenize"
    /\ ~BuildsLabels
    /\ token_output' = WithInputIds(token_record, mapping.concept_tokenizer)
    /\ pc' = "tokenized"
    /\ UNCHANGED <<mapping, token_record, transform_vars, sort_vars,
                   convert_vars, merge_vars, stats_vars, event_vars,
                   ancestry_vars,
                   more_vars>>

\* Lines 399-435: in pretraining a record with mlm_skip_values gets labels.
TokenizeWithLabels ==
    /\ pc = "tokenize"
    /\ BuildsLabels
    /\ Len(token_record.concept_ids) = Len(token_record.mlm_skip_values)
    /\ token_output' =
          [WithInputIds(token_record, mapping.concept_tokenizer)
           EXCEPT !.has_labels = TRUE,
                  !.input_ids = MaskedLabels(@, token_record.mlm_skip_values).input_ids,
                  !.labels = MaskedLabels(
                                Encode(mapping.concept_tokenizer,
                                       token_record.concept_ids),
                                token_record.mlm_skip_values).labels]
    /\ pc' = "tokenized"
    /\ UNCHANGED <<mapping, token_record, transform_vars, sort_vars,
                   convert_vars, merge_vars, stats_vars, event_vars,
                   ancestry_vars,
                   more_vars>>

\* Lines 424-425: the assertion on the two lengths fails; nothing is
\* returned.
TokenizeAssertionError ==
    /\ pc = "tokenize"
    /\ BuildsLabels
    /\ Len(token_record.concept_ids) # Len(token_record.mlm_skip_values)
    /\ pc' = "AssertionError"
    /\ UNCHANGED <<tokenize_vars, transform_vars, sort_vars, convert_vars,
                   merge_vars, stats_vars, event_vars, ancestry_vars,
                   more_vars>>

(***************************************************************************)
(* TokenizeSpec: HFTokenizationMapping.transform on every input record.    *)
(***************************************************************************)
TokenizeSpecInit ==
    /\ TokenizeInit
    /\ PipelineIdle
    /\ MoreIdle
    /\ MergeIdle /\ StatsIdle /\ EventIdle /\ AncestryIdle

TokenizeNext ==
    \/ TokenizeWithoutLabels
    \/ TokenizeWithLabels
    \/ TokenizeAssertionError

TokenizeSpec == TokenizeSpecInit /\ [][TokenizeNext]_vars

(***************************************************************************)
(* PatientBlock._convert_event (meds_utils.py) under the conversion rules  *)
(* of MedsToBertMimic4.  An absent text_value or numeric_value (None) is   *)
(* the empty tuple, a present one a one-element tuple.  re.search and      *)
(* float are tabulated for the text values of the input domain.            *)
(***************************************************************************)
NoText == <<>>

NoRule == [code |-> "", parsing_pattern |-> "", mapped_event_labels |-> <<>>]

EventConversionRule(code, parsing_pattern, mapped_event_labels) ==
    [code |-> code, parsing_pattern |-> parsing_pattern,
     mapped_event_labels |-> mapped_event_labels]

\* MedsToBertMimic4._text_event_to_numeric_events (the rules of the codes of
\* the input domain).
text_event_to_numeric_events ==
    { EventConversionRule("Blood Pressure", "(\\d+)/(\\d+)",
          <<"Systolic Blood Pressure", "Diastolic Blood Pressure">>),
      EventConversionRule("Weight (Lbs)", "(\\d+)", <<"Weight (Lbs)">>),
      EventConversionRule("LAB//50827//UNK", "(\\d+)/(\\d+)",
          <<"LAB//50827//UNK//1", "LAB//50827//UNK//2">>) }

\* The rule of the code, or None.
get_text_event_to_numeric_events_rule(code) ==
    IF \E r \in text_event_to_numeric_events : r.code = code
    THEN CHOOSE r \in text_event_to_numeric_events : r.code = code
    ELSE NoRule

get_open_ended_event_codes == {"LAB//220001//UNK"}

ConvertibleCodes ==
    {"Blood Pressure", "Weight (Lbs)", "LAB//50827//UNK", "LAB//220001//UNK",
     "LAB//50912//mg/dL"}

TextValues == {"120/80", "150", "Hypertension", "n/a"}

\* re.search(parsing_pattern, text_value).groups(); no match is <<>>.
SearchGroups(parsing_pattern, text_value) ==
    IF parsing_pattern = "(\\d+)/(\\d+)"
    THEN (IF text_value = "120/80" THEN <<"120", "80">> ELSE <<>>)
    ELSE IF parsing_pattern = "(\\d+)"
    THEN (IF text_value = "120/80" THEN <<"120">>
          ELSE IF text_value = "150" THEN <<"150">> ELSE <<>>)
    ELSE <<>>

\* float(value) of a matched group.
Float(value) ==
    IF value = "120" THEN 120 ELSE IF value = "80" THEN 80 ELSE 150

MedsEvent(code, time, numeric_value, text_value, vid) ==
    [code |-> code, time |-> time, numeric_value |-> numeric_value,
     text_value |-> text_value, visit_id |-> vid]

\* Lines 115-125: one numeric event per matched group (every group of \d+
\* is numeric).
NumericEvents(e, rule, groups, vid) ==
    [k \in 1..Min(Len(rule.mapped_event_labels), Len(groups)) |->
        MedsEvent(rule.mapped_event_labels[k], e.time, <<Float(groups[k])>>,
                  NoText, vid)]

\* Lines 136-144: the event itself.
SameEvent(e, vid) ==
    <<MedsEvent(e.code, e.time, e.numeric_value, e.text_value, vid)>>

\* Lines 128-135: the text value becomes the code of an open-ended event.
OpenEndedOrSame(e, vid) ==
    IF e.code \in get_open_ended_event_codes /\ e.text_value # NoText
    THEN <<MedsEvent(e.text_value[1], e.time, NoValue, NoText, vid)>>
    ELSE SameEvent(e, vid)

\* Lines 112-135: the branch of an event that has a conversion rule.
ConvertWithRule(e, rule, groups, vid) ==
    IF groups # <<>> /\ Len(groups) = Len(rule.mapped_event_labels)
    THEN NumericEvents(e, rule, groups, vid)
    ELSE OpenEndedOrSame(e, vid)

\* Lines 103-145.
convert_event(e, vid) ==
    IF e.numeric_value = NoValue /\ e.text_value # NoText
       /\ get_text_event_to_numeric_events_rule(e.code) # NoRule
    THEN ConvertWithRule(e, get_text_event_to_numeric_events_rule(e.code),
            SearchGroups(
                get_text_event_to_numeric_events_rule(e.code).parsing_pattern,
                e.text_value[1]),
            vid)
    ELSE SameEvent(e, vid)

ConvertEventInit ==
    /\ pc = "convert_event"
    /\ event \in
          { [code |-> c, time |-> At(FirstDay, s), numeric_value |-> n,
             text_value |-> t] :
              c \in ConvertibleCodes, s \in TimesOfDay,
              n \in {NoValue, <<5>>},
              t \in {NoText} \cup { <<x>> : x \in TextValues } }
    /\ converted_events = <<>>

ConvertEvent ==
    /\ pc = "convert_event"
    /\ converted_events' = convert_event(event, default_visit_id)
    /\ pc' = "converted"
    /\ UNCHANGED <<event, transform_vars, sort_vars, convert_vars, merge_vars,
                   stats_vars, tokenize_vars, ancestry_vars,
                   more_vars>>

(***************************************************************************)
(* EventSpec: _convert_event on every event of the input domain.           *)
(***************************************************************************)
EventSpecInit ==
    /\ ConvertEventInit
    /\ PipelineIdle
    /\ MoreIdle
    /\ MergeIdle /\ StatsIdle /\ TokenizeIdle /\ AncestryIdle

EventNext == ConvertEvent

EventSpec == EventSpecInit /\ [][EventNext]_vars

(***************************************************************************)
(* build_ancestry_table_for (spark_utils.py).  A table is the set of its   *)
(* rows.  concept_relationship holds a Subsumes row for every edge of the  *)
(* concept hierarchy and the reverse 'Is a' row; the hierarchy is acyclic  *)
(* (an edge goes from a lower to a higher concept id).                     *)
(***************************************************************************)
MaxConcepts == 3       \* concepts of the concept graph (ancestry)

Concepts == 1..MaxConcepts

RelationshipRow(concept_id_1, concept_id_2, relationship_id) ==
    [concept_id_1 |-> concept_id_1, concept_id_2 |-> concept_id_2,
     relationship_id |-> relationship_id]

ConceptRelationships(edges) ==
    { RelationshipRow(e[1], e[2], "Subsumes") : e \in edges }
        \cup { RelationshipRow(e[2], e[1], "Is a") : e \in edges }

AncestryRow(ancestor, descendant, distance) ==
    [ancestor_concept_id |-> ancestor, descendant_concept_id |-> descendant,
     distance |-> distance]

\* Lines 514-521: the Subsumes rows that start at a seed, at distance 1.
initial_query(cr_table, seeds) ==
    { AncestryRow(cr.concept_id_1, cr.concept_id_2, 1) :
        cr \in { r \in cr_table :
                   r.concept_id_1 \in seeds /\ r.relationship_id = "Subsumes" } }

\* Lines 523-535: one more Subsumes step from every row of the table, kept
\* only when the concept reached is no descendant_concept_id of the table.
recurring_query(table, cr_table) ==
    { AncestryRow(p[1].ancestor_concept_id, p[2].concept_id_2,
                  p[1].distance + 1) :
        p \in { q \in table \X cr_table :
                  /\ q[1].descendant_concept_id = q[2].concept_id_1
                  /\ q[2].relationship_id = "Subsumes"
                  /\ ~\E i2 \in table :
                        q[2].concept_id_2 = i2.descendant_concept_id } }

\* Variant: the candidates are not added to the table.
union_query_without_candidates(table, candidate) == table

\* Lines 537-546: UNION of the table and the candidates.
union_query(table, candidate) == table \cup candidate

AncestryInit ==
    /\ pc = "initial_query"
    /\ \E edges \in SUBSET { e \in Concepts \X Concepts : e[1] < e[2] } :
          concept_relationship = ConceptRelationships(edges)
    /\ concept_ids \in (SUBSET Concepts) \ {{}}
    /\ ancestry_table = {}
    /\ candidate_set = {}

\* Lines 548-553: the initial table and the first candidates.
InitialQuery ==
    /\ pc = "initial_query"
    /\ ancestry_table' = initial_query(concept_relationship, concept_ids)
    /\ candidate_set' =
          recurring_query(initial_query(concept_relationship, concept_ids),
                          concept_relationship)
    /\ pc' = "while"
    /\ UNCHANGED <<concept_relationship, concept_ids, transform_vars,
                   sort_vars, convert_vars, merge_vars, stats_vars,
                   tokenize_vars, event_vars,
                   more_vars>>

\* Lines 555-558: the body of the while loop.
UnionCandidates ==
    /\ pc = "while"
    /\ candidate_set # {}
    /\ ancestry_table' = union_query(ancestry_table, candidate_set)
    /\ candidate_set' =
          recurring_query(union_query(ancestry_table, candidate_set),
                          concept_relationship)
    /\ UNCHANGED <<pc, concept_relationship, concept_ids, transform_vars,
                   sort_vars, convert_vars, merge_vars, stats_vars,
                   tokenize_vars, event_vars,
                   more_vars>>

\* Lines 555, 560-570: no candidate is left and the table is returned.
ReturnAncestryTable ==
    /\ pc = "while"
    /\ candidate_set = {}
    /\ pc' = "ancestry_returned"
    /\ UNCHANGED <<ancestry_vars, transform_vars, sort_vars, convert_vars,
                   merge_vars, stats_vars, tokenize_vars, event_vars,
                   more_vars>>

(***************************************************************************)
(* AncestrySpec: build_ancestry_table_for on every concept graph and every *)
(* non-empty set of seeds.                                                 *)
(***************************************************************************)
AncestrySpecInit ==
    /\ AncestryInit
    /\ PipelineIdle
    /\ MoreIdle
    /\ MergeIdle /\ StatsIdle /\ TokenizeIdle /\ EventIdle

AncestryNext ==
    \/ InitialQuery
    \/ UnionCandidates
    \/ ReturnAncestryTable

AncestrySpec == AncestrySpecInit /\ [][AncestryNext]_vars

(***************************************************************************)
(* AncestryLiveSpec: build_ancestry_table_for on every concept_relationship *)
(* table, the Subsumes rows of which may form cycles.  The function runs    *)
(* its statements one after the other, so a step that can be taken is       *)
(* taken.                                                                   *)
(***************************************************************************)
AnyRelationshipsInit ==
    /\ pc = "initial_query"
    /\ \E edges \in SUBSET { e \in Concepts \X Concepts : e[1] # e[2] } :
          concept_relationship = ConceptRelationships(edges)
    /\ concept_ids \in (SUBSET Concepts) \ {{}}
    /\ ancestry_table = {}
    /\ candidate_set = {}

AncestryLiveSpecInit ==
    /\ AnyRelationshipsInit
    /\ PipelineIdle
    /\ MoreIdle
    /\ MergeIdle /\ StatsIdle /\ TokenizeIdle /\ EventIdle

AncestryLiveSpec ==
    AncestryLiveSpecInit /\ [][AncestryNext]_vars /\ WF_vars(AncestryNext)

(***************************************************************************)
(* PatientEventBaseDecorator and PatientEventAttDecorator                  *)
(* (patient_event_decorator.py), applied one after the other to the event  *)
(* rows of one person (one cohort_member_id, one person_id).  A DataFrame   *)
(* is the set of its rows.  row_number() over a window numbers the rows of  *)
(* the window in the window's order and breaks ties in any way.            *)
(***************************************************************************)
MaxRows == 3           \* event rows of the person (decorators)

MEASUREMENT == "measurement"
CATEGORICAL_MEASUREMENT == "categorical_measurement"

DecoratedDates == {DT(2024, 4, 14), DT(2024, 4, 15), DT(2024, 4, 22)}

VisitOccurrenceIds == {1, 2}

RawRow(concept_id, domain, date, visit_occurrence_id) ==
    [standard_concept_id |-> concept_id,
     domain |-> domain,
     date |-> date,
     visit_occurrence_id |-> visit_occurrence_id,
     visit_concept_id |-> IF visit_occurrence_id = 1 THEN "9202" ELSE "9201",
     age |-> 44]

\* The event rows: a condition and a measurement on every date of every
\* visit.
RawRows ==
    { RawRow(c[1], c[2], date, v) :
        c \in {<<"320128", "condition">>, <<"4134120", MEASUREMENT>>},
        date \in DecoratedDates, v \in VisitOccurrenceIds }

AttTypes == {"day", "cehr_bert"}

\* (F.unix_timestamp('date') / F.lit(24 * 60 * 60)).cast('int')
days_since_epoch_udf(date) ==
    (TotalSeconds(date) - TotalSeconds(Epoch)) \div SecondsPerDay

\* (F.unix_timestamp('date') / F.lit(24 * 60 * 60 * 7)).cast('int')
weeks_since_epoch_udf(date) ==
    (TotalSeconds(date) - TotalSeconds(Epoch)) \div (SecondsPerDay * 7)

RowsOfVisit(rows, visit_occurrence_id) ==
    { r \in rows : r.visit_occurrence_id = visit_occurrence_id }

\* F.first('days_since_epoch') over the rows of the visit ordered by
\* days_since_epoch.
visit_date_udf(rows, row) ==
    CHOOSE d \in { days_since_epoch_udf(r.date) :
                     r \in RowsOfVisit(rows, row.visit_occurrence_id) } :
        \A r \in RowsOfVisit(rows, row.visit_occurrence_id) :
            d <= days_since_epoch_udf(r.date)

\* The numberings F.row_number() can give the rows of the person ordered by
\* visit_start_date.
visit_rank_udf(rows) ==
    { rank \in [rows -> 1..Cardinality(rows)] :
        \A r, s \in rows :
            /\ r # s => rank[r] # rank[s]
            /\ visit_date_udf(rows, r) < visit_date_udf(rows, s)
                  => rank[r] < rank[s] }

\* F.col('visit_rank_order') % F.lit(2) + 1
visit_segment_udf(visit_rank_order) == (visit_rank_order % 2) + 1

BaseDecoratedRow(rows, row, visit_rank_order) ==
    [standard_concept_id |-> row.standard_concept_id,
     domain |-> row.domain,
     date |-> row.date,
     visit_occurrence_id |-> row.visit_occurrence_id,
     visit_concept_id |-> row.visit_concept_id,
     age |-> row.age,
     priority |-> 0,
     days_since_epoch |-> days_since_epoch_udf(row.date),
     date_in_week |-> weeks_since_epoch_udf(row.date),
     visit_start_date |-> visit_date_udf(rows, row),
     visit_rank_order |-> visit_rank_order,
     visit_segment |-> visit_segment_udf(visit_rank_order),
     concept_value_mask |-> IF row.domain = MEASUREMENT THEN 1 ELSE 0,
     mlm_skip_value |->
        IF row.domain \in {MEASUREMENT, CATEGORICAL_MEASUREMENT} THEN 1 ELSE 0,
     concept_value |-> -1]

\* F.first('date') over the rows of the visit ordered by date.
visit_start_date_udf(rows, visit_occurrence_id) ==
    EarliestTime({ r.date : r \in RowsOfVisit(rows, visit_occurrence_id) })

\* F.first('date') over the rows of the visit ordered by date, descending.
visit_end_date_udf(rows, visit_occurrence_id) ==
    LatestTime({ r.date : r \in RowsOfVisit(rows, visit_occurrence_id) })

\* Lines 95-101, 103-109: the marker row made of the row of the visit that
\* row_number() numbers 1.  The date column is overwritten before the rows
\* are numbered by date, so any row of the visit can be that row.
MarkerRow(row, date, concept_id, priority) ==
    [row EXCEPT !.date = date,
                !.standard_concept_id = concept_id,
                !.domain = "visit",
                !.concept_value = -1,
                !.priority = priority]

VisitsOf(rows) == { r.visit_occurrence_id : r \in rows }

visit_start_events(rows, first_row) ==
    { MarkerRow(first_row[v], visit_start_date_udf(rows, v), "VS", -2) :
        v \in VisitsOf(rows) }

visit_end_events(rows, last_row) ==
    { MarkerRow(last_row[v], visit_end_date_udf(rows, v), "VE", 1) :
        v \in VisitsOf(rows) }

\* orderBy('date', 'priority', 'visit_occurrence_id')
LagBefore(r, s) ==
    IF TotalSeconds(r.date) # TotalSeconds(s.date)
    THEN TotalSeconds(r.date) < TotalSeconds(s.date)
    ELSE IF r.priority # s.priority THEN r.priority < s.priority
    ELSE r.visit_occurrence_id < s.visit_occurrence_id

RowsBefore(rows, row) == { r \in rows : LagBefore(r, row) }

\* F.lag('days_since_epoch') for a VS row; <<>> is NULL.  No other row has
\* the date, the priority and the visit of a VS row, so the row in front of
\* it is one of the latest rows before it.
prev_days_since_epoch_udf(rows, row) ==
    IF RowsBefore(rows, row) = {} THEN <<>>
    ELSE <<days_since_epoch_udf(
              LatestTime({ r.date : r \in RowsBefore(rows, row) }))>>

time_delta_udf(rows, row) ==
    IF prev_days_since_epoch_udf(rows, row) = <<>> THEN 0
    ELSE days_since_epoch_udf(row.date) - prev_days_since_epoch_udf(rows, row)[1]

\* Lines 124-133: the time token function of the att_type.
att_func(att_type, time_delta) ==
    IF att_type = "day" THEN time_day_token(time_delta)
    ELSE time_token_func(time_delta)

TimeTokenRow(rows, row, att_type, priority) ==
    [row EXCEPT !.standard_concept_id =
                    att_func(att_type, time_delta_udf(rows, row)),
                !.priority = priority,
                !.visit_segment = 0,
                !.date_in_week = 0,
                !.age = -1,
                !.visit_concept_id = "0"]

\* Variant: the time token rows get the priority -1.
time_token_insertions_behind_vs(rows, att_type) ==
    { TimeTokenRow(rows, r, att_type, -1) :
        r \in { s \in rows : /\ s.standard_concept_id = "VS"
                             /\ prev_days_since_epoch_udf(rows, s) # <<>> } }

\* Lines 143-150: one time token row per VS row that has a row in front of
\* it.
time_token_insertions(rows, att_type) ==
    { TimeTokenRow(rows, r, att_type, -3) :
        r \in { s \in rows : /\ s.standard_concept_id = "VS"
                             /\ prev_days_since_epoch_udf(rows, s) # <<>> } }

\* Lines 135-139: the union of the events and the markers with
\* days_since_epoch taken from the date again.
WithMarkers(rows, first_row, last_row) ==
    { [r EXCEPT !.days_since_epoch = days_since_epoch_udf(r.date)] :
        r \in rows \cup visit_start_events(rows, first_row)
                   \cup visit_end_events(rows, last_row) }

\* Lines 157-162: the visit type rows.
visit_type_tokens(rows) ==
    { [r EXCEPT !.standard_concept_id = r.visit_concept_id, !.priority = -1] :
        r \in { s \in rows : s.standard_concept_id = "VS" } }

WithVisitTypes(rows, include_visit_type) ==
    IF include_visit_type THEN rows \cup visit_type_tokens(rows) ELSE rows

\* Lines 164-166.
WithoutVisitTokens(rows, exclude_visit_tokens) ==
    IF exclude_visit_tokens
    THEN { r \in rows : r.standard_concept_id \notin {"VS", "VE"} }
    ELSE rows

AttDecorated(rows, decorator) ==
    WithoutVisitTokens(
        WithVisitTypes(
            rows \cup time_token_insertions(rows, decorator.att_type),
            decorator.include_visit_type),
        decorator.exclude_visit_tokens)

DecorateInit ==
    /\ pc = "base_decorator"
    /\ decorators \in [include_visit_type : BOOLEAN,
                       exclude_visit_tokens : BOOLEAN,
                       att_type : AttTypes]
    /\ raw_patient_event \in
          { rows \in SUBSET RawRows : Cardinality(rows) \in 1..MaxRows }
    /\ patient_event = {}

\* PatientEventBaseDecorator.decorate
BaseDecorate ==
    /\ pc = "base_decorator"
    /\ \E rank \in visit_rank_udf(raw_patient_event) :
          patient_event' =
              { BaseDecoratedRow(raw_patient_event, r, rank[r]) :
                  r \in raw_patient_event }
    /\ pc' = "att_decorator"
    /\ UNCHANGED <<decorators, raw_patient_event, grid_vars, transform_vars,
                   sort_vars, convert_vars, merge_vars, stats_vars,
                   tokenize_vars, event_vars, ancestry_vars>>

\* PatientEventAttDecorator.decorate
AttDecorate ==
    /\ pc = "att_decorator"
    /\ \E first_row, last_row \in [VisitsOf(patient_event) -> patient_event] :
          /\ \A v \in VisitsOf(patient_event) :
                /\ first_row[v].visit_occurrence_id = v
                /\ last_row[v].visit_occurrence_id = v
          /\ patient_event' =
                AttDecorated(WithMarkers(patient_event, first_row, last_row),
                             decorators)
    /\ pc' = "decorated"
    /\ UNCHANGED <<decorators, raw_patient_event, grid_vars, transform_vars,
                   sort_vars, convert_vars, merge_vars, stats_vars,
                   tokenize_vars, event_vars, ancestry_vars>>

(***************************************************************************)
(* DecorateSpec: the two decorators on every input of the domain.          *)
(***************************************************************************)
DecorateSpecInit ==
    /\ DecorateInit
    /\ PipelineIdle
    /\ GridIdle
    /\ MergeIdle /\ StatsIdle /\ TokenizeIdle /\ EventIdle /\ AncestryIdle

DecorateNext ==
    \/ BaseDecorate
    \/ AttDecorate

DecorateSpec == DecorateSpecInit /\ [][DecorateNext]_vars

(***************************************************************************)
(* get_grid_search_config (evaluation.py).  The config file is read into   *)
(* three sections; a section is the list of its values, which configparser *)
(* returns as strings, in key order.  float and int are tabulated for the  *)
(* values of the input domain, learning rates in units of 0.0001.          *)
(***************************************************************************)
MaxValues == 2         \* values per section of the config file (grid search)

LearningRateValues == {"0.001", "0.0001"}

LstmDirectionValues == {"True", "False", "0", ""}

LstmUnitValues == {"64", "128"}

\* float(v)
LearningRate(v) == IF v = "0.001" THEN 10 ELSE 1

\* bool(v) of a string: False for the empty string, True for any other.
Bool(v) == v # ""

\* int(v)
LstmUnit(v) == IF v = "64" THEN 64 ELSE 128

Values(pool) == UNION { [1..n -> pool] : n \in 1..MaxValues }

GridInit ==
    /\ pc = "grid_search_config"
    /\ \E rates \in Values(LearningRateValues),
          directions \in Values(LstmDirectionValues),
          units \in Values(LstmUnitValues) :
             grid_search_file =
                 [learning_rate |-> rates, lstm_direction |-> directions,
                  lstm_unit |-> units]
    /\ grid_search_config = <<>>

\* Lines 22-31.
GridSearchConfig(file) ==
    [learning_rates |->
        [k \in DOMAIN file.learning_rate |-> LearningRate(file.learning_rate[k])],
     lstm_directions |->
        [k \in DOMAIN file.lstm_direction |-> Bool(file.lstm_direction[k])],
     lstm_units |->
        [k \in DOMAIN file.lstm_unit |-> LstmUnit(file.lstm_unit[k])]]

get_grid_search_config ==
    /\ pc = "grid_search_config"
    /\ grid_search_config' = GridSearchConfig(grid_search_file)
    /\ pc' = "grid_search_returned"
    /\ UNCHANGED <<grid_search_file, decorate_vars, transform_vars,
                   sort_vars, convert_vars, merge_vars, stats_vars,
                   tokenize_vars, event_vars, ancestry_vars>>

(***************************************************************************)
(* GridSpec: get_grid_search_config on every config file of the domain.    *)
(***************************************************************************)
GridSpecInit ==
    /\ GridInit
    /\ PipelineIdle
    /\ DecorateIdle
    /\ MergeIdle /\ StatsIdle /\ TokenizeIdle /\ EventIdle /\ AncestryIdle

GridNext == get_grid_search_config

GridSpec == GridSpecInit /\ [][GridNext]_vars

(***************************************************************************)
(* The patient of the unit test (hf_med_to_cehrbert_mapping_test.py): the  *)
(* inpatient visit is supplied before the earlier outpatient visit.        *)
(***************************************************************************)
TestOutpatientVisit ==
    Visit("9202", DT(2024, 4, 14), <<Event(DT(2024, 4, 14), "320128", NoValue)>>)

TestInpatientVisit ==
    Visit("9201", DT(2024, 4, 21),
          <<Event(DT(2024, 4, 21), "320128", NoValue),
            Event(DT(2024, 4, 22), "4134120", <<5>>)>>)

TestPatient == PatientRecord(<<TestInpatientVisit, TestOutpatientVisit>>)

CehrGptConfig ==
    [include_demographic_prompt |-> TRUE,
     include_auxiliary_token |-> TRUE,
     att_function_type |-> "day",
     inpatient_att_function_type |-> "day"]

Done == pc = "done"

(***************************************************************************)
(* Reading the produced token record.                                      *)
(***************************************************************************)
ConceptIds == cehrbert_record.concept_ids

Positions == 1..Len(ConceptIds)

VSPositions == { p \in Positions : ConceptIds[p] = "[VS]" }

IsMarker(p) == ConceptIds[p] \in {"[VS]", "[VE]"}

\* The last [VS]/[VE] marker at or before p (0 when there is none).
LastMarker(p) ==
    LET ms == { q \in 1..p : IsMarker(q) }
    IN  IF ms = {} THEN 0 ELSE CHOOSE q \in ms : \A r \in ms : r <= q

\* p lies inside a [VS]..[VE] span (the markers included).
InSpan(p) ==
    LastMarker(p) > 0 /\ (ConceptIds[LastMarker(p)] = "[VS]" \/ LastMarker(p) = p)

\* The [VS] that opens the span of an in-span position p.
SpanStart(p) == CHOOSE q \in VSPositions : q <= p /\ \A r \in VSPositions : r <= p => r <= q

PromptLen == IF config.include_demographic_prompt THEN 4 ELSE 0

\* An artificial time token between two visits: after the prompt, outside
\* every span.
IsInterVisitATT(p) == p > PromptLen /\ ~InSpan(p)

NonEmptyInput == { j \in DOMAIN record.visits : record.visits[j].events # <<>> }

VisitKey(v) == <<WeeksSinceEpoch(v.visit_start_datetime), v.visit_type>>

TokenKey(p) == <<cehrbert_record.dates[p], cehrbert_record.visit_concept_ids[p]>>

\* The 1-based index, in ascending start order, of the k-th visit with events.
IndexOfProcessed(k) ==
    LET sv == SortedVisits(record.visits)
    IN  CHOOSE j \in DOMAIN sv :
            /\ sv[j].events # <<>>
            /\ Cardinality({ h \in 1..j : sv[h].events # <<>> }) = k

(***************************************************************************)
(* C1: whatever the order of the input visits list, the [VS]..[VE] spans   *)
(* of the non-empty visits are emitted in ascending visit_start_datetime   *)
(* order: every span is closed before the next one opens, the [VS] tokens  *)
(* are exactly those of the non-empty input visits, and a span of an       *)
(* earlier start never follows a span of a later start.  (A [VS] token     *)
(* carries the week of its visit's start and the visit type; the starts of *)
(* VisitStarts fall in distinct weeks.)                                    *)
(***************************************************************************)
C1_VisitsInStartOrder ==
    Done =>
        /\ \A p, q \in VSPositions :
              p < q => /\ cehrbert_record.dates[p] <= cehrbert_record.dates[q]
                       /\ \E e \in p..q : ConceptIds[e] = "[VE]"
        /\ \A v \in VisitPool :
              Cardinality({ p \in VSPositions : TokenKey(p) = VisitKey(v) })
                = Cardinality({ j \in NonEmptyInput :
                                  VisitKey(record.visits[j]) = VisitKey(v) })

\* The input lists a later visit before an earlier one, both with events.
C1_Witness ==
    /\ Done
    /\ Len(record.visits) >= 2
    /\ record.visits[1].events # <<>>
    /\ record.visits[2].events # <<>>
    /\ TotalSeconds(record.visits[1].visit_start_datetime)
          > TotalSeconds(record.visits[2].visit_start_datetime)
    /\ Cardinality(VSPositions) >= 2

(***************************************************************************)
(* C2: after transform every list field has the same length, that length   *)
(* is num_of_concepts, and orders is exactly 1..N.                         *)
(***************************************************************************)
C2_EqualLengths ==
    Done =>
        LET n == cehrbert_record.num_of_concepts
        IN  /\ Len(cehrbert_record.concept_ids) = n
            /\ Len(cehrbert_record.visit_segments) = n
            /\ Len(cehrbert_record.orders) = n
            /\ Len(cehrbert_record.dates) = n
            /\ Len(cehrbert_record.ages) = n
            /\ Len(cehrbert_record.visit_concept_orders) = n
            /\ Len(cehrbert_record.visit_concept_ids) = n
            /\ Len(cehrbert_record.concept_value_masks) = n
            /\ Len(cehrbert_record.concept_values) = n
            /\ Len(cehrbert_record.mlm_skip_values) = n
            /\ \A k \in 1..n : cehrbert_record.orders[k] = k

\* A record with prompt, time tokens and a numeric event has been produced.
C2_Witness ==
    /\ Done
    /\ cehrbert_record.num_of_concepts >= 10
    /\ \E p \in Positions : cehrbert_record.concept_value_masks[p] = 1
    /\ \E p \in Positions : IsInterVisitATT(p)

(***************************************************************************)
(* C3: every artificial time token between two visits carries age -1,      *)
(* date 0, visit_segment 0 and the visit_concept_order of the visit that   *)
(* follows it; every token of a visit's span ([VS], visit type, events,    *)
(* discharge facility, [VE]) carries that visit's segment (1 or 2) and, as *)
(* visit_concept_order, that visit's 1-based index in start order.         *)
(***************************************************************************)
C3_TokenAttributes ==
    Done =>
        /\ \A p \in Positions :
              IsInterVisitATT(p) =>
                  /\ cehrbert_record.ages[p] = -1
                  /\ cehrbert_record.dates[p] = 0
                  /\ cehrbert_record.visit_segments[p] = 0
                  /\ p + 1 \in VSPositions
                  /\ cehrbert_record.visit_concept_orders[p]
                        = cehrbert_record.visit_concept_orders[p + 1]
        /\ \A p \in Positions :
              InSpan(p) =>
                  LET s == SpanStart(p)
                      k == Cardinality({ q \in VSPositions : q <= s })
                  IN  /\ cehrbert_record.visit_segments[s] \in {1, 2}
                      /\ cehrbert_record.visit_segments[p]
                            = cehrbert_record.visit_segments[s]
                      /\ cehrbert_record.visit_concept_orders[p]
                            = cehrbert_record.visit_concept_orders[s]
                      /\ cehrbert_record.visit_concept_orders[s]
                            = IndexOfProcessed(k)

\* A time token sits between two visits and the later visit is an inpatient
\* visit with auxiliary tokens and events.
C3_Witness ==
    /\ Done
    /\ config.include_auxiliary_token
    /\ \E p \in Positions :
          /\ IsInterVisitATT(p)
          /\ p + 1 \in VSPositions
          /\ cehrbert_record.visit_concept_ids[p + 1] = "9201"
          /\ cehrbert_record.visit_segments[p + 1] = 2

(***************************************************************************)
(* C4: for the test patient, with demographic prompt, auxiliary tokens and *)
(* inpatient ATT enabled and the day-bucket function for both ATT kinds,   *)
(* concept_ids is exactly the 16-token sequence of the unit test, with an  *)
(* i-D7 token before the inpatient visit's second measurement.             *)
(***************************************************************************)
C4_TestSequence ==
    (Done /\ record = TestPatient /\ config = CehrGptConfig) =>
        cehrbert_record.concept_ids =
            <<"year:2024", "age:44", "8507", "0",
              "[VS]", "9202", "320128", "[VE]",
              "D7", "[VS]", "9201", "320128", "i-D7", "4134120", "8536", "[VE]">>

(***************************************************************************)
(* Reading the records of the sequence-ordering stage.                     *)
(***************************************************************************)
Keys(rec) == { rec[j].k : j \in DOMAIN rec }

IsListColumn(rec, k) == rec[CHOOSE j \in DOMAIN rec : rec[j].k = k].is_list

Ascending(seq) == \A a, b \in DOMAIN seq : a < b => seq[a] <= seq[b]

StrictlyAscending(seq) == \A a, b \in DOMAIN seq : a < b => seq[a] < seq[b]

\* Column k of the input is in the output with the same value.
Unchanged(rec, out, k) == HasKey(out, k) /\ Get(out, k) = Get(rec, k)

\* The list-valued columns of the input that are as long as concept_ids.
SequenceKeys(rec) ==
    { k \in Keys(rec) :
        IsListColumn(rec, k) /\ Len(Get(rec, k)) = Len(Get(rec, "concept_ids")) }

(***************************************************************************)
(* C5: SortPatientSequenceMapping.transform is idempotent: for every       *)
(* record, with or without orders/dates, transform(transform(r)) equals    *)
(* transform(r).                                                           *)
(***************************************************************************)
C5_SortIdempotent == pc = "sorted_twice" => sort_twice = sort_once

\* A record with orders whose rows the first application has moved.
C5_Witness ==
    /\ pc = "sorted_twice"
    /\ HasKey(sort_record, "orders")
    /\ HasKey(sort_once, "concept_ids")
    /\ Get(sort_once, "orders") # Get(sort_record, "orders")
    /\ Get(sort_once, "concept_ids") # Get(sort_record, "concept_ids")

(***************************************************************************)
(* C6 (as claimed): for every record whose orders values are already       *)
(* ascending, transform returns a record in which every column of the      *)
(* input, list-valued and scalar alike, is present and unchanged.          *)
(***************************************************************************)
C6_EveryColumnUnchanged ==
    (pc = "sorted" /\ HasKey(sort_record, "orders")
        /\ Ascending(Get(sort_record, "orders")))
    => \A k \in Keys(sort_record) : Unchanged(sort_record, sort_once, k)

(***************************************************************************)
(* C6 (amended): for every record with at least one token whose orders     *)
(* values are strictly ascending, transform returns exactly the            *)
(* list-valued columns that are as long as concept_ids, each unchanged;    *)
(* the scalar columns are not part of the returned record.                 *)
(***************************************************************************)
C6_SequenceColumnsUnchanged ==
    (pc = "sorted" /\ HasKey(sort_record, "orders")
        /\ Get(sort_record, "concept_ids") # <<>>
        /\ StrictlyAscending(Get(sort_record, "orders")))
    => /\ Keys(sort_once) = SequenceKeys(sort_record)
       /\ Len(sort_once) = Cardinality(SequenceKeys(sort_record))
       /\ \A k \in SequenceKeys(sort_record) :
             Unchanged(sort_record, sort_once, k)
       /\ \A k \in Keys(sort_record) :
             ~IsListColumn(sort_record, k) => ~HasKey(sort_once, k)

\* Three tokens in strictly ascending orders, with dates and scalars.
C6_Witness ==
    /\ pc = "sorted"
    /\ HasKey(sort_record, "orders")
    /\ HasKey(sort_record, "dates")
    /\ Len(Get(sort_record, "concept_ids")) >= 2
    /\ StrictlyAscending(Get(sort_record, "orders"))
    /\ \E k \in Keys(sort_record) : ~IsListColumn(sort_record, k)
    /\ Get(sort_record, "concept_ids")[1] # Get(sort_record, "concept_ids")[2]

(***************************************************************************)
(* Reading the blocks of convert_one_patient.                              *)
(***************************************************************************)
BlockIndexes == DOMAIN patient_blocks

\* The visit id block j was constructed with.
ProvisionalId(j) == default_visit_id + j - 1

\* Seconds from the latest event of block e to the earliest event of block a.
GapSeconds(e, a) ==
    TotalSecondsBetween(patient_blocks[a].min_time, patient_blocks[e].max_time)

SameInpatientVisit(j, k) ==
    /\ patient_blocks[j].visit_id = patient_blocks[k].visit_id
    /\ patient_blocks[j].visit_type = DEFAULT_INPATIENT_CONCEPT_ID
    /\ patient_blocks[k].visit_type = DEFAULT_INPATIENT_CONCEPT_ID

\* Block d is the first discharge-flagged block from block a on, and no
\* other admission-flagged block lies between them: the stay that begins
\* at a is closed at d.
StayClosedAt(a, d) ==
    /\ d \in BlockIndexes
    /\ a <= d
    /\ patient_blocks[d].has_discharge
    /\ \A k \in a..(d - 1) : ~patient_blocks[k].has_discharge
    /\ \A k \in (a + 1)..d : ~patient_blocks[k].has_admission

\* An ED-flagged block e, directly followed by the admission-flagged block
\* of a stay that a discharge block closes.
EdThenAdmission(e, a) ==
    /\ e \in BlockIndexes
    /\ a \in BlockIndexes
    /\ a = e + 1
    /\ patient_blocks[e].has_ed_admission
    /\ patient_blocks[a].has_admission
    /\ \E d \in BlockIndexes : StayClosedAt(a, d)

\* The ED cursor the scan holds when it evaluates the admission of block a.
EdCursorAt(a) ==
    TrackEd(ScanPrefix(patient_blocks, a - 1, prediction_time), a,
            patient_blocks[a]).active_ed_index

PairSet == { admit_discharge_pairs[j] : j \in DOMAIN admit_discharge_pairs }

ScanFinished ==
    \/ pc = "scan" /\ block_index > Len(patient_blocks)
    \/ pc \in {"group", "returned"}

(***************************************************************************)
(* C7 (as claimed): for an ED-flagged block followed by an                 *)
(* admission-flagged block of a stay that a discharge block later closes,  *)
(* a gap of at most 24 hours (24 hours included) from the ED block's       *)
(* latest event to the admission block's earliest event gives both blocks  *)
(* the same visit id, typed inpatient; a longer gap, even by one second,   *)
(* leaves the ED block with a visit id different from the admission        *)
(* block's.                                                                *)
(***************************************************************************)
C7_EdMergedWithin24Hours ==
    pc = "returned" =>
        \A e, a \in BlockIndexes :
            EdThenAdmission(e, a) =>
                IF GapSeconds(e, a) <= ED_ADMISSION_HOURS * SecondsPerHour
                THEN SameInpatientVisit(e, a)
                ELSE patient_blocks[e].visit_id # patient_blocks[a].visit_id

(***************************************************************************)
(* C7 (amended): the same, for an ED block that is still the scan's        *)
(* unresolved ED index when the admission of the following block is        *)
(* evaluated (no admission was active at the ED block, the ED block holds  *)
(* no discharge, and the admission block holds no ED event of its own).    *)
(***************************************************************************)
C7_UnresolvedEdMergedWithin24Hours ==
    pc = "returned" =>
        \A e, a \in BlockIndexes :
            (EdThenAdmission(e, a) /\ EdCursorAt(a) = e) =>
                IF GapSeconds(e, a) <= ED_ADMISSION_HOURS * SecondsPerHour
                THEN SameInpatientVisit(e, a)
                ELSE patient_blocks[e].visit_id # patient_blocks[a].visit_id

\* An unresolved ED block, an admission exactly 24 hours later and a
\* discharge on a third day: one inpatient visit.
C7_Witness ==
    /\ pc = "returned"
    /\ \E e, a \in BlockIndexes :
         /\ EdThenAdmission(e, a)
         /\ EdCursorAt(a) = e
         /\ GapSeconds(e, a) = ED_ADMISSION_HOURS * SecondsPerHour
         /\ SameInpatientVisit(e, a)
         /\ \E d \in BlockIndexes : d > a /\ StayClosedAt(a, d)

(***************************************************************************)
(* C8: when the scan meets an admission-flagged block while an unresolved  *)
(* ED index exists and the ED-to-admission gap exceeds 24 hours, the       *)
(* admission starts fresh: active_admission_index becomes this block's     *)
(* index, a later discharge-flagged block records the pair (this block,    *)
(* discharge block), and the blocks of that range share one inpatient      *)
(* visit id.                                                               *)
(***************************************************************************)
LateAdmission(a) ==
    /\ patient_blocks[a].has_admission
    /\ EdCursorAt(a) # 0
    /\ GapSeconds(EdCursorAt(a), a) > ED_ADMISSION_HOURS * SecondsPerHour

C8_LateAdmissionStartsFresh ==
    /\ (pc = "scan" /\ block_index - 1 \in BlockIndexes) =>
          ((LateAdmission(block_index - 1)
              /\ ~patient_blocks[block_index - 1].has_discharge)
           => active_admission_index = block_index - 1)
    /\ pc = "returned" =>
          \A a, d \in BlockIndexes :
              (LateAdmission(a) /\ StayClosedAt(a, d)) =>
                  /\ <<a, d>> \in PairSet
                  /\ \A k \in a..d : SameInpatientVisit(a, k)

(***************************************************************************)
(* C9: for every recorded (admit, discharge) pair that has a following     *)
(* block, the block right after the discharge block carries the stay's     *)
(* visit id and the inpatient type if and only if its earliest event is    *)
(* at most 12 hours (12 hours included) after the discharge block's        *)
(* latest event.                                                           *)
(***************************************************************************)
C9_AbsorbedWithin12Hours ==
    pc = "returned" =>
        \A p \in PairSet :
            p[2] + 1 \in BlockIndexes =>
                (SameInpatientVisit(p[1], p[2] + 1)
                 <=> GapSeconds(p[2], p[2] + 1)
                        <= POST_DISCHARGE_HOURS * SecondsPerHour)

\* A block that begins exactly 12 hours after the discharge block's latest
\* event and has been given the stay's visit id.
C9_Witness ==
    /\ pc = "returned"
    /\ \E p \in PairSet :
         /\ p[2] + 1 \in BlockIndexes
         /\ GapSeconds(p[2], p[2] + 1) = POST_DISCHARGE_HOURS * SecondsPerHour
         /\ SameInpatientVisit(p[1], p[2] + 1)
         /\ patient_blocks[p[2] + 1].visit_id # ProvisionalId(p[2] + 1)

(***************************************************************************)
(* C10 (as claimed): when an admission is still active at the last block,  *)
(* the open-ended pair (active admission index, last block index) is       *)
(* recorded if and only if a prediction_time was supplied; without a       *)
(* prediction_time the blocks of the unfinished stay keep their separate   *)
(* provisional visit ids; and no two recorded pairs have the same          *)
(* discharge index.                                                        *)
(***************************************************************************)
OpenEndedPairIffPredictionTime ==
    (ScanFinished /\ active_admission_index # 0) =>
        (<<active_admission_index, Len(patient_blocks)>> \in PairSet
         <=> prediction_time # NoTime)

NoPairTwice ==
    ScanFinished =>
        \A j, k \in DOMAIN admit_discharge_pairs :
            j # k => admit_discharge_pairs[j][2] # admit_discharge_pairs[k][2]

UnfinishedStay ==
    pc = "returned" /\ active_admission_index # 0 /\ prediction_time = NoTime

C10_OpenEndedPair ==
    /\ OpenEndedPairIffPredictionTime
    /\ NoPairTwice
    /\ UnfinishedStay =>
          \A k \in active_admission_index..Len(patient_blocks) :
              patient_blocks[k].visit_id = ProvisionalId(k)

\* Block k directly follows the discharge block of a recorded pair within
\* 12 hours.
FollowsDischarge(k) ==
    \E p \in PairSet :
        /\ p[2] + 1 = k
        /\ GapSeconds(p[2], k) <= POST_DISCHARGE_HOURS * SecondsPerHour

(***************************************************************************)
(* C10 (amended): as claimed, except that without a prediction_time a      *)
(* block of the unfinished stay keeps its provisional visit id unless it   *)
(* directly follows the discharge block of a recorded stay within 12       *)
(* hours; such a block carries that stay's visit id.                       *)
(***************************************************************************)
C10_OpenEndedPairUnlessAbsorbed ==
    /\ OpenEndedPairIffPredictionTime
    /\ NoPairTwice
    /\ UnfinishedStay =>
          \A k \in active_admission_index..Len(patient_blocks) :
              IF FollowsDischarge(k)
              THEN patient_blocks[k].visit_id = patient_blocks[k - 1].visit_id
              ELSE patient_blocks[k].visit_id = ProvisionalId(k)

\* A prediction_time was supplied and the admission is still active at the
\* last block: the open-ended pair makes two blocks one inpatient visit.
C10_Witness ==
    /\ pc = "returned"
    /\ prediction_time # NoTime
    /\ active_admission_index # 0
    /\ active_admission_index < Len(patient_blocks)
    /\ <<active_admission_index, Len(patient_blocks)>> \in PairSet
    /\ SameInpatientVisit(active_admission_index, Len(patient_blocks))

(***************************************************************************)
(* Reading the visits convert_one_patient returns.                         *)
(***************************************************************************)
\* The (code, time) of every event of returned visit v.
ReturnedEventsOf(v) ==
    { RawEvent(visits[v].events[k].time, visits[v].events[k].code) :
        k \in DOMAIN visits[v].events }

AllReturnedEvents == UNION { ReturnedEventsOf(v) : v \in DOMAIN visits }

StreamEvents == { patient_events[j] : j \in DOMAIN patient_events }

(***************************************************************************)
(* C11: with a prediction_time and a time-ordered stream, no event whose   *)
(* time is strictly after prediction_time is in a returned visit, and an   *)
(* event of the stream whose time is not after prediction_time (equal to   *)
(* it in particular) is in a returned visit.                               *)
(***************************************************************************)
C11_PredictionTimeCut ==
    (pc = "returned" /\ prediction_time # NoTime) =>
        /\ \A e \in AllReturnedEvents :
              TotalSeconds(e.time) <= TotalSeconds(prediction_time)
        /\ \A e \in StreamEvents :
              TotalSeconds(e.time) <= TotalSeconds(prediction_time)
                  => e \in AllReturnedEvents

\* The stream held an event at the prediction time, which a visit holds,
\* and a later event, which ended the loop.
C11_Witness ==
    /\ pc = "returned"
    /\ prediction_time # NoTime
    /\ \E e \in StreamEvents : e.time = prediction_time /\ e \in AllReturnedEvents
    /\ \E e \in StreamEvents :
          TotalSeconds(e.time) > TotalSeconds(prediction_time)

(***************************************************************************)
(* C12.  In every exchange round the merge step replaces only slot 0 of    *)
(* each visit's row of concept embeddings by the refined visit embedding,  *)
(* and every other slot of the visit keeps the value it had before the     *)
(* merge of that round.                                                    *)
(***************************************************************************)
MergeStep == pc = "merge" /\ pc' # "merge"

C12_MergeReplacesSlotZeroOnly ==
    [][MergeStep =>
          \A v \in VisitIndexes :
              /\ concept_embeddings'[v][1] = visit_embeddings[v]
              /\ \A c \in ConceptSlots \ {1} :
                     concept_embeddings'[v][c] = concept_embeddings[v][c]]_vars

(***************************************************************************)
(* C13.  After any sequence of add and reset calls the raw buffer holds at *)
(* most capacity observations; an add on an accumulator that already holds *)
(* capacity observations fails with ValueError and leaves the raw buffer   *)
(* as it was.                                                              *)
(***************************************************************************)
AddOnFullBuffer == Len(raw_data) >= Capacity /\ pc' \in {"added", "add_failed"}

C13_BufferBoundedByCapacity ==
    /\ [](Len(raw_data) <= Capacity)
    /\ [][AddOnFullBuffer =>
              /\ pc' = "add_failed"
              /\ add_error' = "ValueError"
              /\ raw_data' = raw_data]_vars

C13_Witness ==
    /\ pc = "add_failed"
    /\ add_error = "ValueError"
    /\ Len(raw_data) = Capacity

(***************************************************************************)
(* C14.  The [VS] token of the k-th processed visit (the k-th visit with   *)
(* events in start-time order) has visit_segment 1 when k is odd and 2     *)
(* when k is even: a visit without events is skipped and does not toggle   *)
(* the segment, so consecutive processed visits never share a segment.     *)
(***************************************************************************)
VisitStartPositions ==
    { k \in DOMAIN cehrbert_record.concept_ids :
          cehrbert_record.concept_ids[k] = "[VS]" }

ProcessedRank(k) == Cardinality({ j \in VisitStartPositions : j <= k })

C14_SegmentAlternatesOverProcessedVisits ==
    pc \in {"visits", "done"} =>
        \A k \in VisitStartPositions :
            cehrbert_record.visit_segments[k] =
                IF ProcessedRank(k) % 2 = 1 THEN 1 ELSE 2

SkippedBeforeProcessed ==
    \E a, b \in DOMAIN record.visits :
        /\ record.visits[a].events = <<>>
        /\ record.visits[b].events # <<>>
        /\ TotalSeconds(record.visits[a].visit_start_datetime)
               < TotalSeconds(record.visits[b].visit_start_datetime)

C14_Witness ==
    /\ pc = "done"
    /\ SkippedBeforeProcessed
    /\ VisitStartPositions # {}

(***************************************************************************)
(* C15.  Within each processed visit the tokens of the timestamped events  *)
(* are emitted in ascending order of event time, ties broken by code in    *)
(* lexicographic order, whatever the order of the visit's events list.     *)
(***************************************************************************)
\* The event codes of the input domain in lexicographic order.
EventCodeOrder == <<"320128", "4134120">>

CodeRank(code) == CHOOSE r \in DOMAIN EventCodeOrder : EventCodeOrder[r] = code

EventBefore(a, b) ==
    IF TotalSeconds(a.time) # TotalSeconds(b.time)
    THEN TotalSeconds(a.time) < TotalSeconds(b.time)
    ELSE CodeRank(a.code) < CodeRank(b.code)

\* The position of event k of events in time order, ties by code.
TimeOrderRank(events, k) ==
    1 + Cardinality({ j \in DOMAIN events :
                        \/ EventBefore(events[j], events[k])
                        \/ (~EventBefore(events[k], events[j]) /\ j < k) })

CodesInTimeOrder(events) ==
    [r \in DOMAIN events |->
        events[CHOOSE k \in DOMAIN events : TimeOrderRank(events, k) = r].code]

RECURSIVE ExpectedEventCodes(_, _)
ExpectedEventCodes(codes, sorted_visits) ==
    IF sorted_visits = <<>> THEN codes
    ELSE ExpectedEventCodes(codes \o CodesInTimeOrder(Head(sorted_visits).events),
                            Tail(sorted_visits))

IsEventCode(code) == \E r \in DOMAIN EventCodeOrder : EventCodeOrder[r] = code

C15_EventsInTimeOrder ==
    pc = "done" =>
        SelectSeq(cehrbert_record.concept_ids, IsEventCode)
            = ExpectedEventCodes(<<>>, SortedVisits(record.visits))

(***************************************************************************)
(* C16.  With demographic prompting the year:<Y> and age:<A> tokens are    *)
(* those of the patient's earliest visit by start time, whatever the order *)
(* of the input visits list.                                               *)
(***************************************************************************)
EarliestVisit == SortedVisits(record.visits)[1]

C16_PromptFromEarliestVisit ==
    (pc \in {"visits", "done"} /\ config.include_demographic_prompt) =>
        /\ cehrbert_record.concept_ids[1] =
              "year:" \o Str(EarliestVisit.visit_start_datetime.y)
        /\ cehrbert_record.concept_ids[2] =
              "age:" \o Str(RelativedeltaYears(
                               EarliestVisit.visit_start_datetime,
                               record.birth_datetime))

(***************************************************************************)
(* C17.  For every timestamped event of a processed visit meas_time_diff   *)
(* is the total number of whole days between the event's time and the date *)
(* cursor, also for gaps of a month or more; when it is positive the       *)
(* cursor advances to the event's time and, with inpatient ATT enabled, an *)
(* i-<token> built from that number of days stands immediately before the  *)
(* event's token.                                                          *)
(***************************************************************************)
\* The i-<token> (if any) and the code of event e, meas_time_diff whole days
\* after the cursor.
WholeDayTokens(tokens, e, fn, meas_time_diff) ==
    IF meas_time_diff > 0 /\ fn # "none"
    THEN tokens \o <<"i-" \o ApplyAtt(fn, meas_time_diff), e.code>>
    ELSE Append(tokens, e.code)

WholeDayCursor(cursor, e, meas_time_diff) ==
    IF meas_time_diff > 0 THEN e.time ELSE cursor

RECURSIVE WholeDayEvents(_, _, _, _)
WholeDayEvents(tokens, events, cursor, fn) ==
    IF events = <<>> THEN tokens
    ELSE WholeDayEvents(
            WholeDayTokens(tokens, Head(events), fn,
                           TimedeltaDays(Head(events).time, cursor)),
            Tail(events),
            WholeDayCursor(cursor, Head(events),
                           TimedeltaDays(Head(events).time, cursor)),
            fn)

RECURSIVE WholeDayVisits(_, _, _)
WholeDayVisits(tokens, sorted_visits, fn) ==
    IF sorted_visits = <<>> THEN tokens
    ELSE WholeDayVisits(
            WholeDayEvents(tokens, Head(sorted_visits).events,
                           Head(sorted_visits).visit_start_datetime, fn),
            Tail(sorted_visits), fn)

\* The tokens of the events and the i-<token>s of the output: an i-<token>
\* is the only token with a visit segment and without an age.
EventAndGapPositions ==
    { k \in DOMAIN cehrbert_record.concept_ids :
         \/ IsEventCode(cehrbert_record.concept_ids[k])
         \/ /\ cehrbert_record.visit_segments[k] # 0
            /\ cehrbert_record.ages[k] = -1 }

EventAndGapTokens ==
    [r \in 1..Cardinality(EventAndGapPositions) |->
        cehrbert_record.concept_ids[
            CHOOSE k \in EventAndGapPositions :
                Cardinality({ j \in EventAndGapPositions : j <= k }) = r]]

C17_GapTokensCountWholeDays ==
    pc = "done" =>
        EventAndGapTokens =
            WholeDayVisits(<<>>, SortedVisits(record.visits),
                           config.inpatient_att_function_type)

(***************************************************************************)
(* C18.  In pretraining, on a record with mlm_skip_values, the returned    *)
(* labels have the length of input_ids, with -100 at every position whose  *)
(* mlm_skip_value is 1 and the input id at every other position; input_ids *)
(* is the tokenizer's encoding, not altered by the labels; outside         *)
(* pretraining no labels are added.                                        *)
(***************************************************************************)
C18_LabelsMaskSkippedPositions ==
    pc = "tokenized" =>
        /\ token_output.input_ids =
              Encode(mapping.concept_tokenizer, token_record.concept_ids)
        /\ BuildsLabels =>
              /\ token_output.has_labels
              /\ Len(token_output.labels) = Len(token_output.input_ids)
              /\ \A k \in DOMAIN token_output.labels :
                    token_output.labels[k] =
                        IF token_record.mlm_skip_values[k] = 1
                        THEN -100 ELSE token_output.input_ids[k]
        /\ ~mapping.is_pretraining => ~token_output.has_labels

C18_Witness ==
    /\ pc = "tokenized"
    /\ BuildsLabels
    /\ \E j, k \in DOMAIN token_output.labels :
          /\ token_record.mlm_skip_values[j] = 1
          /\ token_output.labels[j] = -100
          /\ token_record.mlm_skip_values[k] = 0
          /\ token_output.labels[k] = token_output.input_ids[k]

(***************************************************************************)
(* C19.  For an event whose code is an open-ended event code, that has a   *)
(* text value and no numeric value and to which no numeric pattern         *)
(* applies, the returned event carries the text value as its code.         *)
(***************************************************************************)
NoPatternApplies ==
    \/ get_text_event_to_numeric_events_rule(event.code) = NoRule
    \/ SearchGroups(
          get_text_event_to_numeric_events_rule(event.code).parsing_pattern,
          event.text_value[1]) = <<>>

C19_OpenEndedTextBecomesCode ==
    (/\ pc = "converted"
     /\ event.code \in get_open_ended_event_codes
     /\ event.text_value # NoText
     /\ event.numeric_value = NoValue
     /\ NoPatternApplies) =>
        /\ Len(converted_events) = 1
        /\ converted_events[1].code = event.text_value[1]

(***************************************************************************)
(* C20.  The returned table holds the transitive closure of Subsumes from  *)
(* the seeds: for every seed a and every concept d reachable from a by one *)
(* or more Subsumes edges there is a row with ancestor a and descendant d, *)
(* also when several seeds share descendants.                              *)
(***************************************************************************)
SubsumedBy(concepts) ==
    { r.concept_id_2 :
        r \in { q \in concept_relationship :
                  q.concept_id_1 \in concepts /\ q.relationship_id = "Subsumes" } }

RECURSIVE ReachableFrom(_, _)
ReachableFrom(reached, frontier) ==
    IF frontier \subseteq reached THEN reached
    ELSE ReachableFrom(reached \cup frontier,
                       SubsumedBy(reached \cup frontier))

\* The concepts reachable from a by one or more Subsumes edges.
Descendants(a) == ReachableFrom({}, SubsumedBy({a}))

C20_TransitiveClosureFromSeeds ==
    pc = "ancestry_returned" =>
        \A a \in concept_ids : \A d \in Descendants(a) :
            \E row \in ancestry_table :
                /\ row.ancestor_concept_id = a
                /\ row.descendant_concept_id = d

(***************************************************************************)
(* C21.  The fixed-point loop of build_ancestry_table_for terminates on    *)
(* every finite concept_relationship table, also when the Subsumes rows    *)
(* form a cycle that is reachable from the seeds: the recurring query only *)
(* keeps a concept that is not yet a descendant of the table.              *)
(***************************************************************************)
SeedsAndDescendants ==
    concept_ids \cup UNION { Descendants(a) : a \in concept_ids }

CycleReachableFromSeeds == \E c \in SeedsAndDescendants : c \in Descendants(c)

C21_LoopTerminates == <>(pc = "ancestry_returned")

C21_Witness ==
    /\ pc = "ancestry_returned"
    /\ CycleReachableFromSeeds

\* As stated: with a cycle reachable from the seeds the loop never ends.
C21_CycleNeverReturns == CycleReachableFromSeeds => pc # "ancestry_returned"

(***************************************************************************)
(* C27.  An i-<token> is emitted only inside a visit classified as         *)
(* inpatient: every i-<token> of the output carries an inpatient visit     *)
(* type as its visit_concept_id.                                           *)
(***************************************************************************)
\* An i-<token> is the only token with a visit segment and without an age.
InpatientAttPositions ==
    { k \in DOMAIN cehrbert_record.concept_ids :
         /\ cehrbert_record.visit_segments[k] # 0
         /\ cehrbert_record.ages[k] = -1 }

C27_InpatientAttOnlyInInpatientVisits ==
    pc = "done" =>
        \A k \in InpatientAttPositions :
            IsInpatient(cehrbert_record.visit_concept_ids[k])

(***************************************************************************)
(* C29.  The visit markers of the output are balanced and never nested:    *)
(* read from left to right the markers alternate [VS], [VE], [VS], [VE],   *)
(* ..., the last marker is a [VE], and the number of [VS] tokens and the   *)
(* number of [VE] tokens both equal the number of visits with events.      *)
(***************************************************************************)
MarkerPositions == { p \in Positions : IsMarker(p) }

MarkerRank(p) == Cardinality({ q \in MarkerPositions : q <= p })

VEPositions == { p \in Positions : ConceptIds[p] = "[VE]" }

C29_MarkersBalanced ==
    pc = "done" =>
        /\ \A p \in MarkerPositions :
              ConceptIds[p] = IF MarkerRank(p) % 2 = 1 THEN "[VS]" ELSE "[VE]"
        /\ Cardinality(VSPositions) = Cardinality(NonEmptyInput)
        /\ Cardinality(VEPositions) = Cardinality(NonEmptyInput)

C29_Witness ==
    /\ pc = "done"
    /\ Cardinality(NonEmptyInput) = 2
    /\ Cardinality(VSPositions) = 2
    /\ Cardinality(VEPositions) = 2
    /\ \E p \in VEPositions, q \in VSPositions : p < q

(***************************************************************************)
(* C30.  num_of_visits of the output equals the number of visits emitted   *)
(* into the sequence, the number of [VS] tokens, also when the patient has *)
(* visits without events.                                                  *)
(***************************************************************************)
C30_NumOfVisitsCountsEmittedVisits ==
    pc = "done" =>
        cehrbert_record.num_of_visits = Cardinality(VSPositions)

(***************************************************************************)
(* C25 (as claimed): two different recorded (admit, discharge) pairs never *)
(* share a visit id: after the visit-id update, the 12-hour absorption     *)
(* included, a block of one pair and a block of another pair have          *)
(* different visit ids.                                                    *)
(***************************************************************************)
PairBlocks(pair) == pair[1]..pair[2]

C25_RecordedStaysKeepDistinctVisitIds ==
    pc \in {"group", "returned"} =>
        \A p, q \in PairSet :
            p # q =>
                \A j \in PairBlocks(p), k \in PairBlocks(q) :
                    patient_blocks[j].visit_id # patient_blocks[k].visit_id

(***************************************************************************)
(* C26.  Every patient block belongs to exactly one returned visit, the    *)
(* blocks of a visit are contiguous in block order, the visits hold as     *)
(* many events as the blocks (none lost, none duplicated), and the start   *)
(* and the end of a visit are the earliest and the latest event time of    *)
(* its blocks, the start not after the end.                                *)
(***************************************************************************)
BlockEvents(j) ==
    { RawEvent(patient_blocks[j].events[k].time, patient_blocks[j].events[k].code) :
        k \in DOMAIN patient_blocks[j].events }

BlocksOfVisit(v) ==
    { j \in BlockIndexes : BlockEvents(j) \subseteq ReturnedEventsOf(v) }

BlockEventTimes(blocks) ==
    UNION { { patient_blocks[j].events[k].time :
                k \in DOMAIN patient_blocks[j].events } : j \in blocks }

RECURSIVE CountEvents(_, _)
CountEvents(groups, n) ==
    IF n = 0 THEN 0 ELSE Len(groups[n].events) + CountEvents(groups, n - 1)

C26_VisitsPartitionTheBlocks ==
    pc = "returned" =>
        /\ \A j \in BlockIndexes :
              Cardinality({ v \in DOMAIN visits : j \in BlocksOfVisit(v) }) = 1
        /\ CountEvents(visits, Len(visits))
              = CountEvents(patient_blocks, Len(patient_blocks))
        /\ \A v \in DOMAIN visits :
              /\ BlocksOfVisit(v) # {}
              /\ \A j, l \in BlocksOfVisit(v) :
                    \A k \in j..l : k \in BlocksOfVisit(v)
              /\ visits[v].visit_start_datetime
                    = EarliestTime(BlockEventTimes(BlocksOfVisit(v)))
              /\ visits[v].visit_end_datetime
                    = LatestTime(BlockEventTimes(BlocksOfVisit(v)))
              /\ TotalSeconds(visits[v].visit_start_datetime)
                    <= TotalSeconds(visits[v].visit_end_datetime)

\* Two visits, one of them made of two merged blocks.
C26_Witness ==
    /\ pc = "returned"
    /\ Len(visits) = 2
    /\ \E v \in DOMAIN visits :
          /\ Cardinality(BlocksOfVisit(v)) = 2
          /\ TotalSeconds(visits[v].visit_start_datetime)
                < TotalSeconds(visits[v].visit_end_datetime)

(***************************************************************************)
(* C28 (as claimed): tokenization changes concept_values only at the       *)
(* positions whose concept_value_mask is 1; a position with mask 0 keeps   *)
(* its input value, also when its token id is a lab token id.              *)
(***************************************************************************)
C28_UnmaskedValuesKept ==
    pc = "tokenized" =>
        \A k \in DOMAIN token_record.concept_values :
            token_record.concept_value_masks[k] = 0 =>
                token_output.concept_values[k] = token_record.concept_values[k]

(***************************************************************************)
(* C22 (as claimed): PatientEventBaseDecorator.decorate assigns a dense    *)
(* visit rank per person: the rows that share a visit_occurrence_id have   *)
(* the same visit_rank_order and the same visit_segment, the ranks are     *)
(* 1, 2, ... up to the number of visits, and visits with consecutive ranks *)
(* have the different segments of 1 and 2.                                 *)
(***************************************************************************)
C22_DenseVisitRank ==
    pc = "att_decorator" =>
        /\ \A r, s \in patient_event :
              r.visit_occurrence_id = s.visit_occurrence_id =>
                  /\ r.visit_rank_order = s.visit_rank_order
                  /\ r.visit_segment = s.visit_segment
        /\ { r.visit_rank_order : r \in patient_event }
              = 1..Cardinality(VisitsOf(patient_event))
        /\ \A r, s \in patient_event :
              /\ r.visit_segment \in {1, 2}
              /\ s.visit_rank_order = r.visit_rank_order + 1
                    => s.visit_segment # r.visit_segment

(***************************************************************************)
(* C23.  In the rows PatientEventAttDecorator.decorate returns, ordered by *)
(* ascending priority within a visit, the time token row comes immediately *)
(* before the VS row: time token, VS, the optional visit type row, the     *)
(* events, VE.  A visit gets exactly one time token row when a record of   *)
(* the person lies before its VS row, and none otherwise, so the first     *)
(* visit of the person gets none.                                          *)
(***************************************************************************)
RowKind(row) ==
    IF row.domain # "visit" THEN "event"
    ELSE IF row.standard_concept_id \in {"VS", "VE"} THEN row.standard_concept_id
    ELSE IF row.visit_concept_id = "0" THEN "time_token"
    ELSE "visit_type"

KindRank(order, kind) == CHOOSE k \in DOMAIN order : order[k] = kind

\* Within every visit a row of an earlier kind has a lower priority than a
\* row of a later kind.
PriorityFollows(order) ==
    \A v \in VisitsOf(patient_event) :
        \A r, s \in RowsOfVisit(patient_event, v) :
            KindRank(order, RowKind(r)) < KindRank(order, RowKind(s))
                => r.priority < s.priority

\* A record of the person lies before the start of visit v: an event on an
\* earlier date, or a visit with a smaller id that starts on the same date.
HasPriorRecord(v) ==
    \/ \E r \in raw_patient_event :
          TotalSeconds(r.date)
              < TotalSeconds(visit_start_date_udf(raw_patient_event, v))
    \/ \E w \in VisitsOf(raw_patient_event) :
          /\ w < v
          /\ visit_start_date_udf(raw_patient_event, w)
                = visit_start_date_udf(raw_patient_event, v)

RowsOfKind(v, kind) ==
    { r \in RowsOfVisit(patient_event, v) : RowKind(r) = kind }

OneTimeTokenPerLaterVisit ==
    \A v \in VisitsOf(raw_patient_event) :
        Cardinality(RowsOfKind(v, "time_token"))
            = IF HasPriorRecord(v) THEN 1 ELSE 0

C23_TimeTokenBeforeVS ==
    pc = "decorated" =>
        /\ PriorityFollows(<<"time_token", "VS", "visit_type", "event", "VE">>)
        /\ OneTimeTokenPerLaterVisit

\* A first visit without a time token and a later visit with rows of all
\* five kinds.
C23_Witness ==
    /\ pc = "decorated"
    /\ \E v, w \in VisitsOf(raw_patient_event) :
          /\ ~HasPriorRecord(v)
          /\ RowsOfKind(v, "time_token") = {}
          /\ RowsOfKind(v, "VS") # {}
          /\ HasPriorRecord(w)
          /\ \A kind \in {"time_token", "VS", "visit_type", "event", "VE"} :
                RowsOfKind(w, kind) # {}

\* As stated: VS, then the time token, then the visit type, the events, VE.
C23_TimeTokenAfterVS ==
    pc = "decorated" =>
        /\ PriorityFollows(<<"VS", "time_token", "visit_type", "event", "VE">>)
        /\ OneTimeTokenPerLaterVisit

(***************************************************************************)
(* C24 (as claimed): every value of the LSTM-direction section is parsed   *)
(* as the boolean it denotes: 'False' gives false and 'True' gives true in *)
(* lstm_directions.                                                        *)
(***************************************************************************)
C24_DirectionsParsedAsBooleans ==
    pc = "grid_search_returned" =>
        \A k \in DOMAIN grid_search_file.lstm_direction :
            /\ grid_search_file.lstm_direction[k] = "True"
                  => grid_search_config.lstm_directions[k] = TRUE
            /\ grid_search_file.lstm_direction[k] = "False"
                  => grid_search_config.lstm_directions[k] = FALSE

====
